---- MODULE Spec2Model ----
(***************************************************************************)
(* Reference extraction and cross-linking pipeline of the Scofield Bible   *)
(* project: the enhanced parser (scofield_parser.py, class                 *)
(* EnhancedScofieldParser) and the baseline parser (scofield.py, class     *)
(* ScofieldParser).                                                        *)
(*                                                                         *)
(* Python strings are TLA+ strings; a character is a string of length 1.   *)
(* Python dicts keep insertion order and are sequences of entries, each    *)
(* entry a record whose field "key" is the dict key.                       *)
(***************************************************************************)
EXTENDS Integers, Sequences, FiniteSets, TLC

\* the attributes of the parser object; parser is the class it is an instance of
VARIABLES parser, verses, notes, cross_refs, thematic_index, reading_plans,
          note_counter, theme_counter, plan_counter, current_note_id

\* the locals of the loops over the lines of a file: the line read last, and the
\* note block that ScofieldParser.parse_scofield_notes is accumulating
VARIABLES line, current_note_text, current_linked_verses

\* pc: the stage of the run; ref_str, ref_result: argument and result of a call of
\* _parse_verse_reference
VARIABLES pc, ref_str, ref_result

vars == <<parser, verses, notes, cross_refs, thematic_index, reading_plans,
          note_counter, theme_counter, plan_counter, current_note_id,
          line, current_note_text, current_linked_verses, pc, ref_str, ref_result>>

\* what the enhanced parser never touches, and what the baseline parser never touches
baselineVars == <<current_note_id, current_note_text, current_linked_verses>>

enhancedVars == <<reading_plans, note_counter, theme_counter, plan_counter>>

refVars == <<ref_str, ref_result>>

(***************************************************************************)
(* Characters and the str methods the parsers use.                         *)
(***************************************************************************)
None == "<None>"

UpperChars == "ABCDEFGHIJKLMNOPQRSTUVWXYZ"

LowerChars == "abcdefghijklmnopqrstuvwxyz"

DigitChars == "0123456789"

Char(s, i) == IF i >= 1 /\ i <= Len(s) THEN SubSeq(s, i, i) ELSE ""

UpperSet == {SubSeq(UpperChars, i, i) : i \in 1..26}

LowerSet == {SubSeq(LowerChars, i, i) : i \in 1..26}

DigitSet == {SubSeq(DigitChars, i, i) : i \in 1..10}

WhiteSpace == {" ", "\t", "\n", "\r"}

DigitVal == [c \in DigitSet |-> (CHOOSE i \in 1..10 : SubSeq(DigitChars, i, i) = c) - 1]

IsAlpha(c) == c \in UpperSet \/ c \in LowerSet

IsDigit(c) == c \in DigitSet

IsSpace(c) == c \in WhiteSpace

\* \w of the re module, on the ASCII alphabet of the inputs
IsWord(c) == IsAlpha(c) \/ IsDigit(c) \/ c = "_"

\* the character of alphabet to that stands where c stands in alphabet from; c itself
\* when it is not in from
Swap(c, from, to) ==
    IF \E i \in 1..Len(from) : SubSeq(from, i, i) = c
    THEN Char(to, CHOOSE i \in 1..Len(from) : SubSeq(from, i, i) = c)
    ELSE c

\* the character that str.lower(), str.upper() or str.title() puts at position i:
\* title() sets a letter in upper case unless the character before it is a letter
CaseChar(s, i, how) ==
    CASE how = "lower" -> Swap(Char(s, i), UpperChars, LowerChars)
      [] how = "upper" -> Swap(Char(s, i), LowerChars, UpperChars)
      [] how = "title" -> IF IsAlpha(Char(s, i - 1))
                          THEN Swap(Char(s, i), UpperChars, LowerChars)
                          ELSE Swap(Char(s, i), LowerChars, UpperChars)

\* the strings are rebuilt by halving, which keeps the evaluation shallow
RECURSIVE CaseRange(_, _, _, _)
CaseRange(s, i, j, how) ==
    IF i > j THEN ""
    ELSE IF i = j THEN CaseChar(s, i, how)
    ELSE CaseRange(s, i, (i + j) \div 2, how) \o CaseRange(s, (i + j) \div 2 + 1, j, how)

lower(s) == CaseRange(s, 1, Len(s), "lower")

upper(s) == CaseRange(s, 1, Len(s), "upper")

title(s) == CaseRange(s, 1, Len(s), "title")

strip(s) ==
    LET keep == {i \in 1..Len(s) : ~IsSpace(Char(s, i))}
    IN IF keep = {} THEN ""
       ELSE SubSeq(s, CHOOSE i \in keep : \A j \in keep : i <= j,
                      CHOOSE i \in keep : \A j \in keep : i >= j)

startswith(s, p) == Len(p) <= Len(s) /\ SubSeq(s, 1, Len(p)) = p

\* needle in hay
Contains(hay, needle) ==
    \E i \in 1..(Len(hay) - Len(needle) + 1) : SubSeq(hay, i, i + Len(needle) - 1) = needle

\* the k-th smallest element of a finite set of integers
Nth(S, k) == CHOOSE x \in S : Cardinality({y \in S : y < x}) = k - 1

\* str.split(sep) for a one-character separator
split(s, sep) ==
    LET cuts == {i \in 1..Len(s) : Char(s, i) = sep}
        n == Cardinality(cuts)
        from(k) == IF k = 1 THEN 1 ELSE Nth(cuts, k - 1) + 1
        to(k) == IF k = n + 1 THEN Len(s) ELSE Nth(cuts, k) - 1
    IN [k \in 1..(n + 1) |-> SubSeq(s, from(k), to(k))]

\* sep.join(parts)
RECURSIVE join(_, _)
join(sep, parts) ==
    IF parts = <<>> THEN ""
    ELSE IF Len(parts) = 1 THEN parts[1]
    ELSE parts[1] \o sep \o join(sep, Tail(parts))

RECURSIVE DigitsValue(_, _)
DigitsValue(s, acc) ==
    IF s = "" THEN acc ELSE DigitsValue(Tail(s), 10 * acc + DigitVal[Head(s)])

IsDigits(s) == s # "" /\ \A i \in 1..Len(s) : IsDigit(SubSeq(s, i, i))

\* int(s): surrounding whitespace and one sign are accepted; anything else raises ValueError
IntBody(s) == IF s # "" /\ Head(s) \in {"+", "-"} THEN Tail(s) ELSE s

IntOk(s) == IsDigits(IntBody(strip(s)))

int(s) == LET t == strip(s)
          IN IF Head(t) = "-" THEN 0 - DigitsValue(IntBody(t), 0) ELSE DigitsValue(IntBody(t), 0)

\* f"{n:0Wd}" for n >= 0
RECURSIVE ZeroPad(_, _)
ZeroPad(s, w) == IF Len(s) >= w THEN s ELSE ZeroPad("0" \o s, w)

(***************************************************************************)
(* The book registry, in the dict's insertion order.                       *)
(***************************************************************************)
BIBLE_BOOKS == <<
    <<"GEN", "Genesis">>, <<"EXO", "Exodus">>, <<"LEV", "Leviticus">>, <<"NUM", "Numbers">>,
    <<"DEU", "Deuteronomy">>, <<"JOS", "Joshua">>, <<"JDG", "Judges">>, <<"RUT", "Ruth">>,
    <<"1SA", "1 Samuel">>, <<"2SA", "2 Samuel">>, <<"1KI", "1 Kings">>, <<"2KI", "2 Kings">>,
    <<"1CH", "1 Chronicles">>, <<"2CH", "2 Chronicles">>, <<"EZR", "Ezra">>, <<"NEH", "Nehemiah">>,
    <<"EST", "Esther">>, <<"JOB", "Job">>, <<"PSA", "Psalms">>, <<"PRO", "Proverbs">>,
    <<"ECC", "Ecclesiastes">>, <<"SON", "Song of Solomon">>, <<"ISA", "Isaiah">>, <<"JER", "Jeremiah">>,
    <<"LAM", "Lamentations">>, <<"EZE", "Ezekiel">>, <<"DAN", "Daniel">>, <<"HOS", "Hosea">>,
    <<"JOE", "Joel">>, <<"AMO", "Amos">>, <<"OBA", "Obadiah">>, <<"JON", "Jonah">>,
    <<"MIC", "Micah">>, <<"NAH", "Nahum">>, <<"HAB", "Habakkuk">>, <<"ZEP", "Zephaniah">>,
    <<"HAG", "Haggai">>, <<"ZEC", "Zechariah">>, <<"MAL", "Malachi">>, <<"MAT", "Matthew">>,
    <<"MAR", "Mark">>, <<"LUK", "Luke">>, <<"JOH", "John">>, <<"ACT", "Acts">>,
    <<"ROM", "Romans">>, <<"1CO", "1 Corinthians">>, <<"2CO", "2 Corinthians">>, <<"GAL", "Galatians">>,
    <<"EPH", "Ephesians">>, <<"PHI", "Philippians">>, <<"COL", "Colossians">>, <<"1TH", "1 Thessalonians">>,
    <<"2TH", "2 Thessalonians">>, <<"1TI", "1 Timothy">>, <<"2TI", "2 Timothy">>, <<"TIT", "Titus">>,
    <<"PHM", "Philemon">>, <<"HEB", "Hebrews">>, <<"JAM", "James">>, <<"1PE", "1 Peter">>,
    <<"2PE", "2 Peter">>, <<"1JO", "1 John">>, <<"2JO", "2 John">>, <<"3JO", "3 John">>,
    <<"JUD", "Jude">>, <<"REV", "Revelation">> >>

BookAbbrevs == {BIBLE_BOOKS[i][1] : i \in 1..Len(BIBLE_BOOKS)}

\* the "Handle common variations" dict of _book_name_to_abbrev
variations == <<
    <<"Psalms", "PSA">>, <<"Psalm", "PSA">>, <<"Song of Solomon", "SON">>,
    <<"Song of Songs", "SON">>, <<"Ecclesiastes", "ECC">>, <<"Revelation", "REV">>,
    <<"Revelations", "REV">> >>

\* first index of seq satisfying a test, 0 when there is none
FirstExact(name) ==
    LET hits == {i \in 1..Len(BIBLE_BOOKS) : lower(BIBLE_BOOKS[i][2]) = lower(name)}
    IN IF hits = {} THEN 0 ELSE CHOOSE i \in hits : \A j \in hits : i <= j

FirstPartial(name) ==
    LET hits == {i \in 1..Len(BIBLE_BOOKS) : Contains(lower(BIBLE_BOOKS[i][2]), lower(name))}
    IN IF hits = {} THEN 0 ELSE CHOOSE i \in hits : \A j \in hits : i <= j

_book_name_to_abbrev(book_name_in) ==
    LET book_name == title(strip(book_name_in))
        var == {i \in 1..Len(variations) : variations[i][1] = book_name}
    IN IF var # {} THEN variations[CHOOSE i \in var : TRUE][2]
       ELSE IF FirstExact(book_name) # 0 THEN BIBLE_BOOKS[FirstExact(book_name)][1]
       ELSE IF FirstPartial(book_name) # 0 THEN BIBLE_BOOKS[FirstPartial(book_name)][1]
       ELSE None

(***************************************************************************)
(* The citation patterns.  Every quantifier of the two regular expressions *)
(* is followed by a character class disjoint from its own, so the greedy   *)
(* match is the only match and backtracking never finds another one.       *)
(***************************************************************************)
InClass(c, cls) ==
    CASE cls = "alpha" -> IsAlpha(c)
      [] cls = "digit" -> IsDigit(c)
      [] cls = "space" -> IsSpace(c)
      [] cls = "lower" -> c \in LowerSet

\* index of the last character of the maximal run of cls starting at p (p - 1: empty run)
SpanEnd(s, p, cls) ==
    LET stops == {q \in p..(Len(s) + 1) : q > Len(s) \/ ~InClass(Char(s, q), cls)}
    IN IF p > Len(s) THEN p - 1 ELSE (CHOOSE q \in stops : \A r \in stops : q <= r) - 1

\* X? for a set X of characters: the position after the optional character at p
SkipOne(s, p, chars) == IF Char(s, p) \in chars THEN p + 1 ELSE p

\* The citation pattern anchored at p, with re.IGNORECASE (ignorecase) as
\* [1-3]?\s?[A-Z][a-z]+\.?\s+\d+:\d+ in scofield_parser.py and without it as
\* [1-3]?\s?[A-Z][a-z]+\s+\d+:\d+ in scofield.py: the index of the last character of
\* a part of the pattern.  The parts are the prefix [1-3]?\s?, the book, the
\* optional ".", the white space, the chapter and the verse.
RECURSIVE CiteEnd(_, _, _, _)
CiteEnd(s, p, part, ignorecase) ==
    CASE part = "prefix" -> SkipOne(s, SkipOne(s, p, {"1", "2", "3"}), WhiteSpace) - 1
      [] part = "book" ->
            IF ignorecase THEN SpanEnd(s, CiteEnd(s, p, "prefix", ignorecase) + 1, "alpha")
            ELSE SpanEnd(s, CiteEnd(s, p, "prefix", ignorecase) + 2, "lower")
      [] part = "dot" ->
            IF ignorecase THEN SkipOne(s, CiteEnd(s, p, "book", ignorecase) + 1, {"."}) - 1
            ELSE CiteEnd(s, p, "book", ignorecase)
      [] part = "space" -> SpanEnd(s, CiteEnd(s, p, "dot", ignorecase) + 1, "space")
      [] part = "chapter" -> SpanEnd(s, CiteEnd(s, p, "space", ignorecase) + 1, "digit")
      [] part = "verse" -> SpanEnd(s, CiteEnd(s, p, "chapter", ignorecase) + 2, "digit")

\* the pattern matches: no part but the prefix and the "." is empty
CiteOk(s, ignorecase, prefixEnd, bookEnd, dotEnd, wsEnd, chapEnd, verseEnd) ==
    /\ ignorecase \/ Char(s, prefixEnd + 1) \in UpperSet
    /\ bookEnd >= prefixEnd + 2
    /\ wsEnd >= dotEnd + 1
    /\ chapEnd >= wsEnd + 1
    /\ Char(s, chapEnd + 1) = ":"
    /\ verseEnd >= chapEnd + 2

\* the match object: its groups, and the positions of its first and last character
CiteGroups(s, p, ok, bookEnd, wsEnd, chapEnd, verseEnd) ==
    [ok |-> ok, first |-> p, last |-> verseEnd,
     book_name |-> IF ok THEN SubSeq(s, p, bookEnd) ELSE "",
     chapter |-> IF ok THEN SubSeq(s, wsEnd + 1, chapEnd) ELSE "",
     start_verse |-> IF ok THEN SubSeq(s, chapEnd + 2, verseEnd) ELSE ""]

CiteMatch(s, p, ignorecase) ==
    CiteGroups(s, p,
        CiteOk(s, ignorecase, CiteEnd(s, p, "prefix", ignorecase),
               CiteEnd(s, p, "book", ignorecase), CiteEnd(s, p, "dot", ignorecase),
               CiteEnd(s, p, "space", ignorecase), CiteEnd(s, p, "chapter", ignorecase),
               CiteEnd(s, p, "verse", ignorecase)),
        CiteEnd(s, p, "book", ignorecase), CiteEnd(s, p, "space", ignorecase),
        CiteEnd(s, p, "chapter", ignorecase), CiteEnd(s, p, "verse", ignorecase))

\* match.groups(): the groups of m and the optional group (?:-(\d+))? after it, whose
\* last digit is at endEnd
RefGroups(ref_part, m, endEnd) ==
    [ok |-> m.ok,
     book_name |-> m.book_name,
     chapter |-> m.chapter,
     start_verse |-> m.start_verse,
     end_verse |-> IF m.ok /\ Char(ref_part, m.last + 1) = "-" /\ endEnd >= m.last + 2
                   THEN SubSeq(ref_part, m.last + 2, endEnd) ELSE None]

\* re.match(r'([1-3]?\s?[A-Z][a-z]+)\.?\s+(\d+):(\d+)(?:-(\d+))?', ref_part, re.IGNORECASE)
RefMatch(ref_part) ==
    RefGroups(ref_part, CiteMatch(ref_part, 1, TRUE),
              SpanEnd(ref_part, CiteMatch(ref_part, 1, TRUE).last + 2, "digit"))

\* re.split(r'[;,]+', ref_str): the pieces between the maximal runs of separators
ReSplitRefs(s) ==
    LET IsSep(i) == Char(s, i) \in {";", ","}
        \* first characters of the separator runs, and the characters after them
        runStart == {i \in 1..Len(s) : IsSep(i) /\ ~IsSep(i - 1)}
        runStop == {i \in 2..(Len(s) + 1) : IsSep(i - 1) /\ ~IsSep(i)}
        n == Cardinality(runStart)
        from(k) == IF k = 1 THEN 1 ELSE Nth(runStop, k - 1)
        to(k) == IF k = n + 1 THEN Len(s) ELSE Nth(runStart, k) - 1
    IN [k \in 1..(n + 1) |-> SubSeq(s, from(k), to(k))]

\* a range that stops one verse short of its last verse
RangeIds_exclusive(book_abbrev, chapter, start, end) ==
    [k \in 1..(end - start) |-> book_abbrev \o "." \o chapter \o "." \o ToString(start + k - 1)]

\* [f"{book_abbrev}.{chapter}.{verse_num}" for verse_num in range(start, end + 1)]
RangeIds(book_abbrev, chapter, start, end) ==
    [k \in 1..(end - start + 1) |-> book_abbrev \o "." \o chapter \o "." \o ToString(start + k - 1)]

\* the ids of a match whose book is looked up but never tested
BookIds_unchecked(m, book_abbrev) ==
    RangeIds(book_abbrev, m.chapter, int(m.start_verse),
             IF m.end_verse # None THEN int(m.end_verse) ELSE int(m.start_verse))

\* if book_abbrev: start = int(start_verse); end = int(end_verse) if end_verse else start
BookIds(m, book_abbrev) ==
    IF book_abbrev = None THEN <<>>
    ELSE RangeIds(book_abbrev, m.chapter, int(m.start_verse),
                  IF m.end_verse # None THEN int(m.end_verse) ELSE int(m.start_verse))

\* if match: book_abbrev = self._book_name_to_abbrev(book_name)
MatchIds(m) == IF ~m.ok THEN <<>> ELSE BookIds(m, _book_name_to_abbrev(m.book_name))

\* the body of the loop over ref_parts: the ids one fragment contributes
RefPartIds(ref_part_in) ==
    IF strip(ref_part_in) = "" THEN <<>> ELSE MatchIds(RefMatch(strip(ref_part_in)))

RECURSIVE ConcatIds(_)
ConcatIds(ref_parts) ==
    IF ref_parts = <<>> THEN <<>>
    ELSE RefPartIds(Head(ref_parts)) \o ConcatIds(Tail(ref_parts))

_parse_verse_reference(s) == ConcatIds(ReSplitRefs(s))

\* int(start_verse) or int(end_verse) raises ValueError on the match of a fragment
MatchRaises(m) ==
    /\ m.ok
    /\ _book_name_to_abbrev(m.book_name) # None
    /\ \/ ~IntOk(m.start_verse)
       \/ m.end_verse # None /\ ~IntOk(m.end_verse)

\* the loop raises in some fragment
ParseRaises(s) ==
    \E k \in 1..Len(ReSplitRefs(s)) :
        /\ strip(ReSplitRefs(s)[k]) # ""
        /\ MatchRaises(RefMatch(strip(ReSplitRefs(s)[k])))

(***************************************************************************)
(* Cross-reference extraction from note text.                              *)
(***************************************************************************)
\* (?:See|cf\.|compare|v\.?|verse) in the order the alternatives are tried
CrossCues == <<"see", "cf.", "compare", "v.", "v", "verse">>

\* the least element of a non-empty finite set of integers
Least(S) == CHOOSE x \in S : \A y \in S : x <= y

\* the last character of the white space after the cue at position i
CueSpaceEnd(s, i, cue) == SpanEnd(s, i + Len(cue), "space")

\* the alternative cue matches at position i and the rest of the pattern after it
CuedCiteOk(s, i, cue, ignorecase) ==
    /\ i + Len(cue) - 1 <= Len(s)
    /\ IF ignorecase THEN lower(SubSeq(s, i, i + Len(cue) - 1)) = cue
       ELSE SubSeq(s, i, i + Len(cue) - 1) = cue
    /\ CueSpaceEnd(s, i, cue) >= i + Len(cue)
    /\ CiteMatch(s, CueSpaceEnd(s, i, cue) + 1, ignorecase).ok

\* the first alternative of tries is the one the match is made with; the match
\* object is that of the citation the pattern captures
CrossMatchTried(s, i, cues, tries, ignorecase) ==
    IF tries = {}
    THEN [ok |-> FALSE, first |-> i, last |-> i, book_name |-> "", chapter |-> "",
          start_verse |-> ""]
    ELSE CiteMatch(s, CueSpaceEnd(s, i, cues[Least(tries)]) + 1, ignorecase)

\* a cue of cues, \s+ and a citation, anchored at position i: cross_ref_pattern of
\* scofield_parser.py (ignorecase) and the pattern of _extract_cross_refs of scofield.py
CrossMatch(s, i, cues, ignorecase) ==
    CrossMatchTried(s, i, cues,
                    {k \in 1..Len(cues) : CuedCiteOk(s, i, cues[k], ignorecase)}, ignorecase)

\* re.findall on the matches ms at the positions of a string: the non-overlapping
\* matches, left to right, from position i on
RECURSIVE FindAllFrom(_, _)
FindAllNext(ms, cand) ==
    IF cand = {} THEN <<>>
    ELSE <<ms[Least(cand)]>> \o FindAllFrom(ms, ms[Least(cand)].last + 1)

FindAllFrom(ms, i) == FindAllNext(ms, {j \in i..Len(ms) : ms[j].ok})

\* the text of the group that cross_ref_pattern captures
MatchGroups(s, matches) ==
    [k \in 1..Len(matches) |-> SubSeq(s, matches[k].first, matches[k].last)]

\* cross_ref_pattern.findall(note_text): the captured citations
cross_ref_findall(s) ==
    MatchGroups(s, FindAllFrom([i \in 1..Len(s) |-> CrossMatch(s, i, CrossCues, TRUE)], 1))

RECURSIVE ConcatTargets(_)
ConcatTargets(matches) ==
    IF matches = <<>> THEN <<>>
    ELSE _parse_verse_reference(Head(matches)) \o ConcatTargets(Tail(matches))

\* the target verse ids of a note text, in the order the loops visit them
CrossRefTargets(note_text) == ConcatTargets(cross_ref_findall(note_text))

CrossReference(source_id, target_id, ref_type, description, confidence) ==
    [source_id |-> source_id, target_id |-> target_id, ref_type |-> ref_type,
     description |-> description, confidence |-> confidence]

\* confidence 0.8, in tenths
AutoConfidence == 8

(***************************************************************************)
(* Keywords of a verse text and theme tags of a note text.                 *)
(***************************************************************************)
\* w occurs in text between two \b
HasWord(text, w) ==
    \E i \in 1..(Len(text) - Len(w) + 1) :
        /\ SubSeq(text, i, i + Len(w) - 1) = w
        /\ ~IsWord(Char(text, i - 1))
        /\ ~IsWord(Char(text, i + Len(w)))

\* w occurs in text right after a \b
HasPrefix(text, w) ==
    \E i \in 1..(Len(text) - Len(w) + 1) :
        /\ SubSeq(text, i, i + Len(w) - 1) = w
        /\ (w = "" \/ IsWord(Char(text, i)) # IsWord(Char(text, i - 1)))

\* doctrine_patterns: the keyword and the words its regular expression accepts
doctrine_patterns == <<
    <<"dispensation", {"dispensation", "dispensations", "dispensational"}>>,
    <<"covenant", {"covenant", "covenants", "covenantal"}>>,
    <<"grace", {"grace"}>>,
    <<"law", {"law"}>>,
    <<"prophecy", {"prophecy", "prophecies", "prophets", "prophetic"}>>,
    <<"kingdom", {"kingdom"}>>,
    <<"church", {"church"}>>,
    <<"Israel", {"israel"}>>,
    <<"salvation", {"salvation"}>>,
    <<"atonement", {"atonement"}>>,
    <<"justification", {"justification"}>>,
    <<"sanctification", {"sanctification"}>>,
    <<"eschatology", {"eschatology"}>>,
    <<"rapture", {"rapture"}>>,
    <<"millennium", {"millennium"}>>,
    <<"resurrection", {"resurrection"}>> >>

common_keywords == <<"God", "Lord", "Jesus", "Christ", "Holy Spirit",
                     "faith", "love", "hope", "sin", "grace">>

\* list(set(keywords)): the order of the result is not determined, so it is kept as a set
_extract_keywords(text) ==
    LET text_lower == lower(text)
    IN {doctrine_patterns[i][1] : i \in {j \in 1..Len(doctrine_patterns) :
                                          \E w \in doctrine_patterns[j][2] : HasWord(text_lower, w)}}
       \cup
       {common_keywords[i] : i \in {j \in 1..Len(common_keywords) :
                                     Contains(text_lower, lower(common_keywords[j]))}}

SCOFIELD_THEMES == <<
    "Dispensation", "Covenant Theology", "Grace", "Law vs. Grace", "Prophecy",
    "Kingdom of God", "Church Age", "Israel and the Church", "Gentiles",
    "Salvation", "Atonement", "Justification", "Sanctification", "Glorification",
    "Eschatology", "Second Coming", "Millennium", "Great White Throne",
    "Rapture", "Tribulation", "Antichrist", "Resurrection", "Judgment",
    "Heaven", "Hell", "New Jerusalem", "Eternal State",
    "Creation", "Fall of Man", "Redemption", "Covenants", "Promise",
    "Faith", "Hope", "Love", "Sin", "Repentance",
    "Forgiveness", "Mercy", "Justice", "Holiness", "Righteousness",
    "Deity of Christ", "Humanity of Christ", "Virgin Birth", "Incarnation",
    "Atoning Death", "Resurrection", "Ascension", "High Priest",
    "Mediator", "Advocate", "King of Kings", "Lord of Lords" >>

\* the test without the stem: only the whole theme name is looked for
ThemeMatches_whole_name(theme, note_lower) == Contains(note_lower, lower(theme))

\* the test of the loop body: the theme, or the theme without its last letter at a \b
ThemeMatches(theme, note_lower) ==
    LET theme_lower == lower(theme)
    IN \/ Contains(note_lower, theme_lower)
       \/ HasPrefix(note_lower, SubSeq(theme_lower, 1, Len(theme_lower) - 1))

\* the subsequence of seq at the indices of keep, in order
SelectIdx(seq, keep) ==
    LET ks == SelectSeq([i \in 1..Len(seq) |-> i], LAMBDA i : i \in keep)
    IN [k \in 1..Len(ks) |-> seq[ks[k]]]

_extract_themes_from_note(note_text) ==
    LET note_lower == lower(note_text)
    IN SelectIdx(SCOFIELD_THEMES,
                 {i \in 1..Len(SCOFIELD_THEMES) : ThemeMatches(SCOFIELD_THEMES[i], note_lower)})

(***************************************************************************)
(* Lists and insertion-ordered dicts.                                      *)
(***************************************************************************)
Range(seq) == {seq[i] : i \in 1..Len(seq)}

Min(a, b) == IF a <= b THEN a ELSE b

Reverse(seq) == [k \in 1..Len(seq) |-> seq[Len(seq) + 1 - k]]

\* the distinct elements of seq in the order of their first occurrence
FirstSeen(seq) ==
    SelectIdx(seq, {i \in 1..Len(seq) : \A j \in 1..(i - 1) : seq[j] # seq[i]})

Keys(d) == [i \in 1..Len(d) |-> d[i].key]

HasKey(d, k) == \E i \in 1..Len(d) : d[i].key = k

Lookup(d, k) == d[CHOOSE i \in 1..Len(d) : d[i].key = k]

\* d[k] = entry: a new key goes to the end, an old key keeps its place
DictPut(d, entry) ==
    IF HasKey(d, entry.key)
    THEN [i \in 1..Len(d) |-> IF d[i].key = entry.key THEN entry ELSE d[i]]
    ELSE Append(d, entry)

(***************************************************************************)
(* Inputs of the pipeline.                                                 *)
(***************************************************************************)
\* rows of the verse file, as the csv reader yields them
KjvSmall == <<
    <<"GEN", "1", "1", "In the beginning God created the heaven and the earth.">>,
    <<" gen ", " 1 ", "2", "And the earth was without form,", "and void">>,
    <<"XYZ", "1", "1", "a book that is not in the registry">>,
    <<"GEN", "one", "1", "a chapter that is no number">>,
    <<"GEN", "1", "3">>,
    <<"JOH", "1", "1", "In the beginning was the Word, full of grace and salvation">>,
    <<"JOH", "01", "1", "The law was given by Moses, but grace came by Jesus Christ">> >>

\* the number of Genesis verses of the long verse file
BulkVerses == 25

KjvBulk ==
    [k \in 1..BulkVerses |-> <<"GEN", "1", ToString(k), "And God said, Let there be light">>]
    \o <<<<"JOH", "1", "1", "In the beginning was the Word">>,
         <<"JOH", "1", "2", "The same was in the beginning with God">>,
         <<"JOH", "1", "3", "All things were made by him">>>>

KjvFiles == {KjvSmall, KjvBulk}

\* lines of the note file
NoteLines == {
    "Genesis 1:1\tThe first creative act of creation. See John 1:1-3\tCreation\tcreation, beginning",
    "Gen 1:1-25; John 1:1-3\tsalvation and justification by grace, cf. Rom 5:12\tDoctrine",
    "Gen 1:1-100\tThe dispensation of law and the millennium; compare Rev 20:4\tProphecy\tages, ,law",
    "Xyz 1:1\tAn orphan note of grace, see Gen 1:1\tMisc",
    "Gen 1:1\ta line of two columns",
    "# Gen 1:1\ta comment\tMisc",
    "Gen 1:1-9\tNotes on eschatology, the resurrection and the deity of Christ\tProphecy",
    "Gen 1:3; Gen 1:3\tThe covenant of grace\tDoctrine" }

\* the largest value of note_counter at which a line is still read
MaxNotes == 2

(***************************************************************************)
(* Citation strings for the reference parser.  A citation is described by  *)
(* its fragments; a fragment is a book token, an optional ".", a chapter   *)
(* as written, a first verse and an optional last verse, or it is text     *)
(* that the pattern does not match.                                        *)
(***************************************************************************)
\* tokens that the registry resolves, tokens that it does not, and text that is no citation
BookTokens == {"Genesis", "Gen", "john", "JOHN", "1 John", "3john", "Psalm", "Revelations",
               "Xyz", "JDG", "1Sa"}

NoCitation == {"Song of Solomon 1:1-3", "cf. John 1:1", "Gen 1", "Gen1:2", "John 3 16", "  "}

\* first and last verse: as written, and as numbers (last = 0: no range is written)
VerseSpans == {
    [text |-> "1", first |-> 1, last |-> 0],
    [text |-> "2-4", first |-> 2, last |-> 4],
    [text |-> "07-007", first |-> 7, last |-> 7],
    [text |-> "9-11", first |-> 9, last |-> 11],
    [text |-> "5-4", first |-> 5, last |-> 4],
    [text |-> "3-", first |-> 3, last |-> 0] }

Citation(token, dot, chapter, span) ==
    [text |-> token \o dot \o " " \o chapter \o ":" \o span.text,
     cited |-> TRUE, token |-> token, chapter |-> chapter,
     first |-> span.first, last |-> span.last]

Fragments ==
    {Citation(t, d, "1", v) : t \in BookTokens, d \in {"", "."},
                            v \in VerseSpans}
    \cup {Citation(t, "", c, v) : t \in {"Gen", "Xyz"}, c \in {"3", "03"}, v \in VerseSpans}
    \cup {Citation(a, "", "1", [text |-> "1", first |-> 1, last |-> 0]) : a \in BookAbbrevs}
    \cup {[text |-> g, cited |-> FALSE, token |-> "", chapter |-> "", first |-> 0, last |-> 0] :
             g \in NoCitation}

\* the fragments that citations of several fragments are made of
JoinedFragments ==
    {f \in Fragments : \/ ~f.cited /\ f.text \in {"Gen 1", "  "}
                       \/ /\ f.cited
                          /\ f.token \in {"Gen", "1 John", "Xyz"}
                          /\ f.text \in {f.token \o " 1:" \o v : v \in {"1", "2-4"}}}

\* a citation: its fragments in order, and its text
RefInputs ==
    {[frags |-> <<f>>, text |-> f.text] : f \in Fragments}
    \cup {[frags |-> <<f, g>>, text |-> f.text \o sep \o g.text] :
             f \in JoinedFragments, g \in JoinedFragments, sep \in {";", ", "}}
    \cup {[frags |-> <<f, g, f>>, text |-> " " \o f.text \o "," \o g.text \o ";" \o f.text \o ";"] :
             f \in JoinedFragments, g \in JoinedFragments}

RefStrings == {r.text : r \in RefInputs}

(***************************************************************************)
(* The pure functions are applied to the inputs above in every step, so    *)
(* their values on these inputs are tabulated once.                        *)
(***************************************************************************)
NoteFields == UNION {Range(split(strip(l), "\t")) : l \in NoteLines}

RefsOf == [s \in {strip(f) : f \in NoteFields} |-> _parse_verse_reference(s)]

parse_verse_reference(s) ==
    IF s \in DOMAIN RefsOf THEN RefsOf[s] ELSE _parse_verse_reference(s)

RaisesOf == [s \in {strip(f) : f \in NoteFields} |-> ParseRaises(s)]

parse_raises(s) == IF s \in DOMAIN RaisesOf THEN RaisesOf[s] ELSE ParseRaises(s)

ThemesOf == [t \in {strip(f) : f \in NoteFields} |-> _extract_themes_from_note(t)]

extract_themes_from_note(t) ==
    IF t \in DOMAIN ThemesOf THEN ThemesOf[t] ELSE _extract_themes_from_note(t)

TargetsOf == [t \in {strip(f) : f \in NoteFields} |-> CrossRefTargets(t)]

cross_ref_targets(t) ==
    IF t \in DOMAIN TargetsOf THEN TargetsOf[t] ELSE CrossRefTargets(t)

(***************************************************************************)
(* Verse Store Builder: _parse_kjv_tsv.                                    *)
(***************************************************************************)
\* an id that leaves the chapter out
verse_id_without_chapter(book, chapter, verse) == book \o "." \o ToString(verse)

\* BibleVerse.verse_id
verse_id(book, chapter, verse) == book \o "." \o ToString(chapter) \o "." \o ToString(verse)

BibleVerse(book, chapter, verse, text, keywords) ==
    [key |-> verse_id(book, chapter, verse), book |-> book, chapter |-> chapter,
     verse |-> verse, text |-> text, note_ids |-> <<>>, keywords |-> keywords]

\* the test without the registry: any book is stored
KjvRowOk_any_book(row) == Len(row) >= 4 /\ IntOk(row[2]) /\ IntOk(row[3])

\* a row the loop body stores: enough columns, a known book, integer chapter and verse
KjvRowOk(row) ==
    /\ Len(row) >= 4
    /\ upper(strip(row[1])) \in BookAbbrevs
    /\ IntOk(row[2])
    /\ IntOk(row[3])

\* the body of the loop over the rows of the csv reader
KjvRow(vs, row) ==
    IF KjvRowOk(row)
    THEN LET text == strip(join(" ", SubSeq(row, 4, Len(row))))
         IN DictPut(vs, BibleVerse(upper(strip(row[1])), int(row[2]), int(row[3]),
                                   text, _extract_keywords(text)))
    ELSE vs

\* the loop over the rows: d[key] = entry for every stored row in turn.  An old key
\* keeps its place and a new key goes to the end, each with the entry of its last row.
KjvPuts(rows) ==
    LET stored == SelectSeq(rows, KjvRowOk)
    IN [k \in 1..Len(stored) |-> KjvRow(<<>>, stored[k])[1]]

KjvPutsOf == [rows \in KjvFiles |-> KjvPuts(rows)]

_parse_kjv_tsv(vs, rows) ==
    LET puts == IF rows \in KjvFiles THEN KjvPutsOf[rows] ELSE KjvPuts(rows)
        LastPut(key) == puts[CHOOSE k \in 1..Len(puts) :
                               /\ puts[k].key = key
                               /\ \A j \in (k + 1)..Len(puts) : puts[j].key # key]
        putKeys == Range(Keys(puts))
        fresh == FirstSeen(SelectSeq(Keys(puts), LAMBDA key : ~HasKey(vs, key)))
    IN [i \in 1..Len(vs) |-> IF vs[i].key \in putKeys THEN LastPut(vs[i].key) ELSE vs[i]]
       \o [k \in 1..Len(fresh) |-> LastPut(fresh[k])]

(***************************************************************************)
(* Note Builder: the body of the loop of _parse_notes_tsv.                 *)
(***************************************************************************)
\* an extraction that files the edge under the verse instead of the note
_extract_cross_refs_from_note_reversed(note_id, note_text) ==
    LET target_verse_ids == cross_ref_targets(note_text)
    IN [k \in 1..Len(target_verse_ids) |->
          CrossReference(target_verse_ids[k], note_id, "explanation",
                         "Referenced in note " \o note_id, AutoConfidence)]

_extract_cross_refs_from_note(note_id, note_text) ==
    LET target_verse_ids == cross_ref_targets(note_text)
    IN [k \in 1..Len(target_verse_ids) |->
          CrossReference(note_id, target_verse_ids[k], "explanation",
                         "Referenced in note " \o note_id, AutoConfidence)]

\* f"N{self.note_counter:04d}"
NoteId(n) == "N" \o ZeroPad(ToString(n), 4)

\* [k.strip() for k in keywords if k.strip()]
NoteKeywords(parts) ==
    LET raw == IF Len(parts) > 3 THEN split(parts[4], ",") ELSE <<>>
        stripped == [k \in 1..Len(raw) |-> strip(raw[k])]
    IN SelectSeq(stripped, LAMBDA k : k # "")

ScofieldNote(note_id, text, linked_verses, category, keywords, theme_tags) ==
    [key |-> note_id,
     note_id |-> IF startswith(note_id, "N") THEN note_id ELSE "N" \o note_id,
     text |-> text, linked_verses |-> linked_verses, category |-> category,
     keywords |-> keywords, theme_tags |-> theme_tags]

\* a line the loop body reads: not blank, not a comment, at least three columns
NoteLineRead(raw) ==
    LET l == strip(raw)
    IN l # "" /\ ~startswith(l, "#") /\ Len(split(l, "\t")) >= 3

NoteParts(raw) == split(strip(raw), "\t")

\* a loop body without the test "if verse_refs:"
NoteCreated_always(raw) ==
    /\ NoteLineRead(raw)
    /\ ~parse_raises(strip(NoteParts(raw)[1]))

\* if verse_refs: a row whose reference resolves to no verse creates nothing, and
\* neither does a row on which the try block raises
NoteCreated(raw) ==
    /\ NoteLineRead(raw)
    /\ ~parse_raises(strip(NoteParts(raw)[1]))
    /\ parse_verse_reference(strip(NoteParts(raw)[1])) # <<>>

\* the link without the multiplicity: a cited verse of the store gets the id once
LinkNote_once(vs, verse_refs, note_id) ==
    [i \in 1..Len(vs) |->
        [vs[i] EXCEPT !.note_ids =
            IF \E j \in 1..Len(verse_refs) : verse_refs[j] = vs[i].key
            THEN Append(@, note_id) ELSE @]]

\* for verse_id in verse_refs: if verse_id in self.verses: note_ids.append(note_id)
LinkNote(vs, verse_refs, note_id) ==
    [i \in 1..Len(vs) |->
        [vs[i] EXCEPT !.note_ids =
            @ \o [k \in 1..Cardinality({j \in 1..Len(verse_refs) : verse_refs[j] = vs[i].key})
                    |-> note_id]]]

(***************************************************************************)
(* Thematic Indexer: build_thematic_network and _build_theme_relationships.*)
(***************************************************************************)
\* the concatenation of a short sequence of sequences
RECURSIVE Flatten(_)
Flatten(seqs) == IF seqs = <<>> THEN <<>> ELSE Head(seqs) \o Flatten(Tail(seqs))

\* the orders in which list(set(...)) may hand back the elements of a set
SetOrders == {"first-seen", "reversed", "alternate"}

\* the elements at the odd places of a list, then those at the even places
Alternate(list) ==
    [k \in 1..Len(list) |->
        IF 2 * k - 1 <= Len(list) THEN list[2 * k - 1]
        ELSE list[2 * (k - (Len(list) + 1) \div 2)]]

\* list(set(list)): the distinct elements, in one of the orders above
ListOfSet(list, order) ==
    IF order = "first-seen" THEN FirstSeen(list)
    ELSE IF order = "reversed" THEN Reverse(FirstSeen(list))
    ELSE Alternate(FirstSeen(list))

\* the (theme, note) pairs in the order the loops over notes and theme_tags visit them
TagPairs(ns) ==
    Flatten([n \in 1..Len(ns) |->
               [k \in 1..Len(ns[n].theme_tags) |-> [theme |-> ns[n].theme_tags[k], n |-> n]]])

\* theme_to_notes[theme]
ThemeToNotes(ns, theme) ==
    LET mine == SelectSeq(TagPairs(ns), LAMBDA p : p.theme = theme)
    IN [k \in 1..Len(mine) |-> ns[mine[k].n].key]

\* theme_to_verses[theme]: the linked verses of the tagged notes, then the verses
\* one of whose keywords title-cases to the theme
ThemeToVerses(ns, vs, theme) ==
    LET mine == SelectSeq(TagPairs(ns), LAMBDA p : p.theme = theme)
        byKeyword == SelectSeq(vs, LAMBDA v : \E k \in v.keywords :
                                   title(k) = theme /\ title(k) \in Range(SCOFIELD_THEMES))
    IN Flatten([k \in 1..Len(mine) |-> ns[mine[k].n].linked_verses])
       \o [k \in 1..Len(byKeyword) |-> byKeyword[k].key]

\* the divisor of the confidence score
ConfidenceScale == 100

\* a score without the cap of min(1.0, ...)
Confidence_uncapped(note_count, verse_count) == note_count + verse_count

\* min(1.0, (len(note_ids) + len(verse_ids)) / 100), in hundredths
Confidence(note_count, verse_count) == Min(ConfidenceScale, note_count + verse_count)

\* f"T{self.theme_counter:03d}"
ThemeId(n) == "T" \o ZeroPad(ToString(n), 3)

ThematicIndex(theme_id, name, note_ids, verse_ids, confidence) ==
    [key |-> theme_id, theme_id |-> theme_id, name |-> name,
     note_ids |-> note_ids, verse_ids |-> verse_ids,
     sub_themes |-> <<>>, parent_themes |-> <<>>, confidence_score |-> confidence]

\* the entries the loop over theme_to_notes.items() creates, the counter starting at c
NewThemes(ns, vs, c, order) ==
    LET names == FirstSeen([k \in 1..Len(TagPairs(ns)) |-> TagPairs(ns)[k].theme])
    IN [k \in 1..Len(names) |->
          LET note_ids == ThemeToNotes(ns, names[k])
              verse_ids == ListOfSet(ThemeToVerses(ns, vs, names[k]), order)
          IN ThematicIndex(ThemeId(c + k - 1), names[k], note_ids, verse_ids,
                           Confidence(Len(note_ids), Len(verse_ids)))]

theme_hierarchies == <<
    <<"Dispensation", <<"Law vs. Grace", "Church Age", "Millennium">>>>,
    <<"Covenant Theology", <<"Promise", "Israel and the Church">>>>,
    <<"Eschatology", <<"Second Coming", "Rapture", "Tribulation", "Millennium">>>>,
    <<"Salvation", <<"Justification", "Sanctification", "Glorification">>>>,
    <<"Christological Themes", <<"Deity of Christ", "Humanity of Christ", "Atoning Death">>>> >>

\* index of the first theme with the name, 0 when there is none
FirstNamed(idx, name) ==
    LET hits == {i \in 1..Len(idx) : idx[i].name = name}
    IN IF hits = {} THEN 0 ELSE CHOOSE i \in hits : \A j \in hits : i <= j

\* the links without the test "if parent_theme": the children of a parent that is not
\* in the index are linked to the first theme of the index
ThemeLinks_any_parent(idx) ==
    Flatten([h \in 1..Len(theme_hierarchies) |->
        Flatten([c \in 1..Len(theme_hierarchies[h][2]) |->
            LET kids == SelectSeq([i \in 1..Len(idx) |-> i],
                                  LAMBDA i : idx[i].name = theme_hierarchies[h][2][c])
            IN [k \in 1..Len(kids) |->
                  <<IF FirstNamed(idx, theme_hierarchies[h][1]) = 0 THEN 1
                    ELSE FirstNamed(idx, theme_hierarchies[h][1]), kids[k]>>]])])

\* the links in the order the loops make them: <<index of the parent, index of the child>>
ThemeLinks(idx) ==
    Flatten([h \in 1..Len(theme_hierarchies) |->
        IF FirstNamed(idx, theme_hierarchies[h][1]) = 0 THEN <<>>
        ELSE Flatten([c \in 1..Len(theme_hierarchies[h][2]) |->
                LET kids == SelectSeq([i \in 1..Len(idx) |-> i],
                                      LAMBDA i : idx[i].name = theme_hierarchies[h][2][c])
                IN [k \in 1..Len(kids) |->
                      <<FirstNamed(idx, theme_hierarchies[h][1]), kids[k]>>]])])

\* a link recorded on the child only
LinkThemes_child_only(idx, links) ==
    [i \in 1..Len(idx) |->
        LET asChild == SelectSeq(links, LAMBDA l : l[2] = i)
        IN [idx[i] EXCEPT
              !.parent_themes = @ \o [k \in 1..Len(asChild) |-> idx[asChild[k][1]].theme_id]]]

\* idx.parent_themes.append(parent_theme.theme_id); parent_theme.sub_themes.append(theme_id)
LinkThemes(idx, links) ==
    [i \in 1..Len(idx) |->
        LET asChild == SelectSeq(links, LAMBDA l : l[2] = i)
            asParent == SelectSeq(links, LAMBDA l : l[1] = i)
        IN [idx[i] EXCEPT
              !.parent_themes = @ \o [k \in 1..Len(asChild) |-> idx[asChild[k][1]].theme_id],
              !.sub_themes = @ \o [k \in 1..Len(asParent) |-> idx[asParent[k][2]].key]]]

_build_theme_relationships(idx) == LinkThemes(idx, ThemeLinks(idx))

(***************************************************************************)
(* Reading-Plan Generator: generate_reading_plans.                         *)
(***************************************************************************)
major_themes == <<"Dispensation", "Covenant Theology", "Salvation", "Eschatology">>

\* a plan is made for a theme with more references than this
PlanThreshold == 10

\* book_verses[:20]
BookLimit == 20

\* the size at which current_day is closed
DayLimit == 10

total_references(theme) == Len(theme.note_ids) + Len(theme.verse_ids)

\* verses_by_book without the limit per book
PlanVerses_unlimited(theme, vs) ==
    LET known == SelectSeq(theme.verse_ids, LAMBDA v : HasKey(vs, v))
        books == FirstSeen([k \in 1..Len(known) |-> Lookup(vs, known[k]).book])
    IN Flatten([b \in 1..Len(books) |->
          SelectSeq(known, LAMBDA v : Lookup(vs, v).book = books[b])])

\* the limit per book without the grouping: the verses stay in the order of the list
PlanVerses_list_order(theme, vs) ==
    LET known == SelectSeq(theme.verse_ids, LAMBDA v : HasKey(vs, v))
        kept == {k \in 1..Len(known) :
                   Cardinality({j \in 1..k : Lookup(vs, known[j]).book = Lookup(vs, known[k]).book})
                       <= BookLimit}
    IN SelectSeq(known, LAMBDA v : \E k \in kept : known[k] = v)

\* verses_by_book, flattened: the theme's verses that are in the store, grouped by
\* book in the order the books are first seen, each book cut to its first 20
PlanVerses(theme, vs) ==
    LET known == SelectSeq(theme.verse_ids, LAMBDA v : HasKey(vs, v))
        books == FirstSeen([k \in 1..Len(known) |-> Lookup(vs, known[k]).book])
    IN Flatten([b \in 1..Len(books) |->
          LET book_verses == SelectSeq(known, LAMBDA v : Lookup(vs, v).book = books[b])
          IN SubSeq(book_verses, 1, Min(BookLimit, Len(book_verses)))])

\* a loop that closes a day only when it holds more than 10 verses
DailyReadings_late(flat) ==
    [d \in 1..((Len(flat) + DayLimit) \div (DayLimit + 1)) |->
        SubSeq(flat, (d - 1) * (DayLimit + 1) + 1, Min(d * (DayLimit + 1), Len(flat)))]

\* the loop that fills current_day: a day is closed when it holds 10 verses and one
\* more arrives, and the last day is appended if it is not empty
DailyReadings(flat) ==
    [d \in 1..((Len(flat) + DayLimit - 1) \div DayLimit) |->
        SubSeq(flat, (d - 1) * DayLimit + 1, Min(d * DayLimit, Len(flat)))]

\* f"P{self.plan_counter:03d}"
PlanId(n) == "P" \o ZeroPad(ToString(n), 3)

ReadingPlan(plan_id, theme_name, days) ==
    [key |-> plan_id, plan_id |-> plan_id, name |-> "Scofield Study: " \o theme_name,
     days |-> days, theme |-> theme_name, estimated_minutes |-> Len(days) * 15]

\* the test with >= in the place of >
PlanWanted_from_threshold(idx, theme_name) ==
    /\ FirstNamed(idx, theme_name) # 0
    /\ total_references(idx[FirstNamed(idx, theme_name)]) >= PlanThreshold

\* if theme_entry and theme_entry.total_references > 10
PlanWanted(idx, theme_name) ==
    /\ FirstNamed(idx, theme_name) # 0
    /\ total_references(idx[FirstNamed(idx, theme_name)]) > PlanThreshold

\* the plans the loop over major_themes creates, the counter starting at c
NewPlans(idx, vs, c) ==
    LET made == SelectSeq(major_themes, LAMBDA t :
                    /\ PlanWanted(idx, t)
                    /\ DailyReadings(PlanVerses(idx[FirstNamed(idx, t)], vs)) # <<>>)
    IN [k \in 1..Len(made) |->
          ReadingPlan(PlanId(c + k - 1), made[k],
                      DailyReadings(PlanVerses(idx[FirstNamed(idx, made[k])], vs)))]

\* the largest values of theme_counter and plan_counter at which the stage is still run
MaxThemeCounter == 4

MaxPlanCounter == 2

(***************************************************************************)
(* Actions of the enhanced parser.  main() drives the stages in the order  *)
(* verse file, note file, thematic network, reading plans; pc is the stage *)
(* of the last call, and a stage may be skipped or repeated.               *)
(***************************************************************************)
ParseKjvFile(rows) ==
    /\ parser = "EnhancedScofieldParser"
    /\ pc = "kjv"
    /\ verses' = _parse_kjv_tsv(verses, rows)
    /\ UNCHANGED <<parser, notes, cross_refs, thematic_index, reading_plans,
                   note_counter, theme_counter, plan_counter, pc, line>>
    /\ UNCHANGED <<baselineVars, refVars>>

\* main finds no verse file: it prints a warning and goes on with the note file
KjvFileMissing ==
    /\ parser = "EnhancedScofieldParser"
    /\ pc = "kjv"
    /\ verses = <<>>
    /\ pc' = "kjv missing"
    /\ UNCHANGED <<parser, verses, notes, cross_refs, thematic_index, line>>
    /\ UNCHANGED <<enhancedVars, baselineVars, refVars>>

\* one iteration of the loop of _parse_notes_tsv
ParseNoteLine(l) ==
    /\ parser = "EnhancedScofieldParser"
    /\ pc \in {"kjv", "kjv missing", "notes"}
    /\ note_counter <= MaxNotes
    /\ pc' = "notes"
    /\ line' = strip(l)
    /\ IF NoteCreated(l)
       THEN LET parts == NoteParts(l)
                note_text == strip(parts[2])
                verse_refs == parse_verse_reference(strip(parts[1]))
                note_id == NoteId(note_counter)
                note == ScofieldNote(note_id, note_text, verse_refs, strip(parts[3]),
                                     NoteKeywords(parts), extract_themes_from_note(note_text))
            IN /\ notes' = DictPut(notes, note)
               /\ verses' = LinkNote(verses, verse_refs, note_id)
               /\ note_counter' = note_counter + 1
               /\ cross_refs' = cross_refs \o _extract_cross_refs_from_note(note_id, note_text)
       ELSE UNCHANGED <<notes, verses, note_counter, cross_refs>>
    /\ UNCHANGED <<parser, thematic_index, reading_plans, theme_counter, plan_counter>>
    /\ UNCHANGED <<baselineVars, refVars>>

\* a build that also drops the repeated theme tags of the notes
build_thematic_network_retagging(order) ==
    /\ parser = "EnhancedScofieldParser"
    /\ pc \in {"kjv", "kjv missing", "notes", "themes"}
    /\ theme_counter <= MaxThemeCounter
    /\ pc' = "themes"
    /\ LET created == NewThemes(notes, verses, theme_counter, order)
       IN /\ thematic_index' = _build_theme_relationships(thematic_index \o created)
          /\ theme_counter' = theme_counter + Len(created)
    /\ notes' = [n \in 1..Len(notes) |->
                    [notes[n] EXCEPT !.theme_tags = FirstSeen(notes[n].theme_tags)]]
    /\ UNCHANGED <<parser, verses, cross_refs, reading_plans, note_counter,
                   plan_counter, line>>
    /\ UNCHANGED <<baselineVars, refVars>>

build_thematic_network(order) ==
    /\ parser = "EnhancedScofieldParser"
    /\ pc \in {"kjv", "kjv missing", "notes", "themes"}
    /\ theme_counter <= MaxThemeCounter
    /\ pc' = "themes"
    /\ LET created == NewThemes(notes, verses, theme_counter, order)
       IN /\ thematic_index' = _build_theme_relationships(thematic_index \o created)
          /\ theme_counter' = theme_counter + Len(created)
    /\ UNCHANGED <<parser, verses, notes, cross_refs, reading_plans, note_counter,
                   plan_counter, line>>
    /\ UNCHANGED <<baselineVars, refVars>>

generate_reading_plans ==
    /\ parser = "EnhancedScofieldParser"
    /\ pc \in {"kjv", "kjv missing", "notes", "themes", "plans"}
    /\ plan_counter <= MaxPlanCounter
    /\ pc' = "plans"
    /\ LET created == NewPlans(thematic_index, verses, plan_counter)
       IN /\ reading_plans' = reading_plans \o created
          /\ plan_counter' = plan_counter + Len(created)
    /\ UNCHANGED <<parser, verses, notes, cross_refs, thematic_index, note_counter,
                   theme_counter, line>>
    /\ UNCHANGED <<baselineVars, refVars>>

\* the call s = _parse_verse_reference(ref_str) of a caller that holds only the string
CallParseVerseReference ==
    /\ pc = "call"
    /\ pc' = "return"
    /\ ref_result' = [raised |-> ParseRaises(ref_str),
                      ids |-> IF ParseRaises(ref_str) THEN <<>>
                              ELSE _parse_verse_reference(ref_str)]
    /\ UNCHANGED <<parser, verses, notes, cross_refs, thematic_index, line, ref_str>>
    /\ UNCHANGED <<enhancedVars, baselineVars>>

(***************************************************************************)
(* The baseline parser: class ScofieldParser of scofield.py.               *)
(***************************************************************************)
\* ScofieldParser.THEMES
THEMES == <<
    "Dispensation", "Covenant", "Grace", "Law", "Prophecy",
    "Kingdom", "Church", "Israel", "Gentiles", "Salvation",
    "Atonement", "Justification", "Sanctification", "Eschatology",
    "Second Coming", "Millennium", "Judgment", "Heaven", "Hell" >>

\* ScofieldParser._book_name_to_abbrev: the full name, in any case, and nothing else
ScofieldParser_book_name_to_abbrev(book_name_in) ==
    LET book_name == title(strip(book_name_in))
    IN IF FirstExact(book_name) # 0 THEN BIBLE_BOOKS[FirstExact(book_name)][1] ELSE None

\* (See|cf\.|compare) in the order the alternatives are tried
ScofieldCues == <<"See", "cf.", "compare">>

\* the ids f"{book_abbrev}.{chapter}.{verse}" of the matches whose book resolves
ScofieldIds(matches) ==
    LET known == SelectSeq(matches,
                     LAMBDA m : ScofieldParser_book_name_to_abbrev(m.book_name) # None)
    IN [k \in 1..Len(known) |->
          ScofieldParser_book_name_to_abbrev(known[k].book_name)
              \o "." \o known[k].chapter \o "." \o known[k].start_verse]

\* re.findall(pattern, text) of _extract_verse_refs, and the ids of its matches
_extract_verse_refs(text) ==
    ScofieldIds(FindAllFrom([i \in 1..Len(text) |-> CiteMatch(text, i, FALSE)], 1))

\* the target ids of the cued citations of a text
ScofieldCrossTargets(text) ==
    ScofieldIds(FindAllFrom([i \in 1..Len(text) |-> CrossMatch(text, i, ScofieldCues, FALSE)], 1))

\* the category of _create_note: the first theme that occurs in the first 50 characters
ScofieldCategory(note_text) ==
    LET first_words == lower(SubSeq(note_text, 1, Min(50, Len(note_text))))
        hits == {i \in 1..Len(THEMES) : Contains(first_words, lower(THEMES[i]))}
    IN IF hits = {} THEN "" ELSE THEMES[CHOOSE i \in hits : \A j \in hits : i <= j]

\* the ScofieldNote that _create_note stores
_create_note(note_lines, linked_verses, note_id_counter) ==
    [key |-> NoteId(note_id_counter), note_id |-> NoteId(note_id_counter),
     text |-> join(" ", note_lines), linked_verses |-> linked_verses,
     category |-> ScofieldCategory(join(" ", note_lines))]

\* a save that takes an id for a block without verse references, too
SaveNote_counting ==
    IF current_note_text # <<>> /\ current_linked_verses # <<>>
    THEN /\ notes' = DictPut(notes, _create_note(current_note_text, current_linked_verses,
                                                 current_note_id))
         /\ verses' = LinkNote(verses, current_linked_verses, NoteId(current_note_id))
         /\ current_note_id' = current_note_id + 1
    ELSE /\ current_note_id' = current_note_id + 1
         /\ UNCHANGED <<notes, verses>>

\* if current_note_text and current_linked_verses: self._create_note(...)
SaveNote ==
    IF current_note_text # <<>> /\ current_linked_verses # <<>>
    THEN /\ notes' = DictPut(notes, _create_note(current_note_text, current_linked_verses,
                                                 current_note_id))
         /\ verses' = LinkNote(verses, current_linked_verses, NoteId(current_note_id))
         /\ current_note_id' = current_note_id + 1
    ELSE UNCHANGED <<notes, verses, current_note_id>>

\* lines of the verse file and of the note file of the baseline parser
ScofieldKjvLines == {
    "GEN\t1\t1\tIn the beginning God created",
    "gen\t1\t2\tAnd the earth was\twithout form  ",
    "GEN\t01\t1\tIn the beginning",
    " GEN \t1\t3\tAnd God said",
    "XYZ\t1\t1\tno such book",
    "JOH\tone\t1\tIn the beginning was the Word",
    "JOH\t1\t1",
    "JOH\t1\t1\tIn the beginning was the Word",
    "" }

ScofieldNoteLines == {
    "NOTE: Genesis 1:1 The creation, by grace",
    "NOTE: General remarks on the law",
    "NOTE: Xyz 1:1 and Genesis 1:2, JOHN 1:1",
    "REF: See John 1:1 and cf. Rom 5:12",
    "  a continuation line ",
    "" }

\* the longest note block and the longest list of cross-references still extended
MaxBlockLines == 1

MaxCrossRefs == 1

\* the values of the pure functions on the lines above, tabulated once
ExtractedRefs == [t \in {strip(l) : l \in ScofieldNoteLines} |-> _extract_verse_refs(t)]

extract_verse_refs(t) ==
    IF t \in DOMAIN ExtractedRefs THEN ExtractedRefs[t] ELSE _extract_verse_refs(t)

ExtractedTargets == [t \in {strip(l) : l \in ScofieldNoteLines} |-> ScofieldCrossTargets(t)]

\* the cross-references of a REF: line, attributed to the note id of the counter
_extract_cross_refs(text, note_id_counter) ==
    LET targets == IF text \in DOMAIN ExtractedTargets THEN ExtractedTargets[text]
                   ELSE ScofieldCrossTargets(text)
    IN [k \in 1..Len(targets) |->
          CrossReference(NoteId(note_id_counter), targets[k], "reference",
                         "Cross-reference", 0)]

\* the body of the loop of parse_kjv_text
ScofieldKjvLine(vs, l) ==
    LET parts == split(strip(l), "\t")
    IN IF /\ strip(l) # ""
          /\ Len(parts) >= 4
          /\ upper(parts[1]) \in BookAbbrevs
          /\ IntOk(parts[2])
          /\ IntOk(parts[3])
       THEN DictPut(vs,
                [key |-> verse_id(upper(parts[1]), int(parts[2]), int(parts[3])),
                 book |-> upper(parts[1]), chapter |-> int(parts[2]),
                 verse |-> int(parts[3]), text |-> join("\t", SubSeq(parts, 4, Len(parts))),
                 note_ids |-> <<>>])
       ELSE vs

\* the loop of parse_kjv_text over the lines of a file
RECURSIVE ScofieldKjvLoop(_, _)
ScofieldKjvLoop(vs, lines) ==
    IF lines = <<>> THEN vs ELSE ScofieldKjvLoop(ScofieldKjvLine(vs, Head(lines)), Tail(lines))

\* verse files of the baseline parser
ScofieldKjvFiles == {
    <<"GEN\t1\t1\tIn the beginning God created the heaven", "gen\t1\t2\tAnd the earth was void",
      "XYZ\t1\t1\tno such book", "JOH\t1\t1\tIn the beginning was the Word">>,
    <<"GEN\t1\t2\tAnd the earth", "", "GEN\t01\t02\tAnd the earth was without form">> }

(***************************************************************************)
(* Actions of the baseline parser.                                         *)
(***************************************************************************)
\* one iteration of the loop of parse_kjv_text
ParseKjvTextLine(l) ==
    /\ parser = "ScofieldParser"
    /\ pc = "kjv"
    /\ line' = strip(l)
    /\ verses' = ScofieldKjvLine(verses, l)
    /\ UNCHANGED <<parser, notes, cross_refs, thematic_index, pc>>
    /\ UNCHANGED <<enhancedVars, baselineVars, refVars>>

\* parse_kjv_text on a whole file
parse_kjv_text(lines) ==
    /\ parser = "ScofieldParser"
    /\ pc = "kjv"
    /\ verses' = ScofieldKjvLoop(verses, lines)
    /\ UNCHANGED <<parser, notes, cross_refs, thematic_index, pc, line>>
    /\ UNCHANGED <<enhancedVars, baselineVars, refVars>>

\* one iteration of the loop of _parse_kjv_tsv over the rows of the csv reader
ParseKjvRow(row) ==
    /\ parser = "EnhancedScofieldParser"
    /\ pc = "kjv"
    /\ line' = join("\t", row)
    /\ verses' = KjvRow(verses, row)
    /\ UNCHANGED <<parser, notes, cross_refs, thematic_index, pc>>
    /\ UNCHANGED <<enhancedVars, baselineVars, refVars>>

\* one iteration of the loop of parse_scofield_notes
ParseScofieldNotesLine(l) ==
    /\ parser = "ScofieldParser"
    /\ pc \in {"kjv", "notes"}
    /\ current_note_id <= MaxNotes
    /\ Len(current_note_text) <= MaxBlockLines
    /\ Len(cross_refs) <= MaxCrossRefs
    /\ pc' = "notes"
    /\ line' = strip(l)
    /\ IF startswith(strip(l), "NOTE:")
       THEN /\ SaveNote
            /\ current_note_text' = <<strip(SubSeq(strip(l), 6, Len(strip(l))))>>
            /\ current_linked_verses' = extract_verse_refs(strip(l))
            /\ UNCHANGED cross_refs
       ELSE IF startswith(strip(l), "REF:")
       THEN /\ cross_refs' = cross_refs \o _extract_cross_refs(strip(l), current_note_id)
            /\ UNCHANGED <<notes, verses, baselineVars>>
       ELSE IF current_note_text # <<>>
       THEN /\ current_note_text' = Append(current_note_text, strip(l))
            /\ UNCHANGED <<notes, verses, cross_refs, current_note_id, current_linked_verses>>
       ELSE UNCHANGED <<notes, verses, cross_refs, baselineVars>>
    /\ UNCHANGED <<parser, thematic_index>>
    /\ UNCHANGED <<enhancedVars, refVars>>

\* the end of the file: the last note is saved and parse_scofield_notes returns
ParseScofieldNotesEnd ==
    /\ parser = "ScofieldParser"
    /\ pc = "notes"
    /\ current_note_text # <<>>
    /\ SaveNote
    /\ current_note_text' = <<>>
    /\ current_linked_verses' = <<>>
    /\ UNCHANGED <<parser, cross_refs, thematic_index, pc, line>>
    /\ UNCHANGED <<enhancedVars, refVars>>

\* the texts of the entries of a dict, lower-cased
LowerTexts(d) == [i \in 1..Len(d) |-> lower(d[i].text)]

\* the indices of the lower-cased texts that have the theme in them
TextsWith(texts, theme) ==
    SelectSeq([i \in 1..Len(texts) |-> i], LAMBDA i : Contains(texts[i], lower(theme)))

\* the ThematicIndex of a theme of THEMES: the notes whose text has the theme (at the
\* indices inNotes), their linked verses and the verses whose text has the theme
ScofieldThematicIndex(ns, vs, theme, inNotes, inVerses, order) ==
    [key |-> theme, theme |-> theme,
     note_ids |-> [k \in 1..Len(inNotes) |-> ns[inNotes[k]].key],
     verse_ids |->
         ListOfSet(Flatten([k \in 1..Len(inNotes) |-> ns[inNotes[k]].linked_verses])
                   \o [k \in 1..Len(inVerses) |-> vs[inVerses[k]].key],
                   order),
     related_themes |-> <<>>]

\* if note_ids or verse_ids: the entry is stored under the theme
ScofieldThemePut(idx, ns, vs, theme, inNotes, inVerses, order) ==
    IF inNotes # <<>> \/ inVerses # <<>>
    THEN DictPut(idx, ScofieldThematicIndex(ns, vs, theme, inNotes, inVerses, order))
    ELSE idx

\* the loop over THEMES from the k-th theme on
RECURSIVE ScofieldThemeLoop(_, _, _, _, _, _, _)
ScofieldThemeLoop(idx, ns, vs, noteTexts, verseTexts, order, k) ==
    IF k > Len(THEMES) THEN idx
    ELSE ScofieldThemeLoop(
             ScofieldThemePut(idx, ns, vs, THEMES[k], TextsWith(noteTexts, THEMES[k]),
                              TextsWith(verseTexts, THEMES[k]), order),
             ns, vs, noteTexts, verseTexts, order, k + 1)

\* build_thematic_index, after the verse file and the note file are parsed
build_thematic_index(order) ==
    /\ parser = "ScofieldParser"
    /\ pc \in {"kjv", "notes", "themes"}
    /\ current_note_text = <<>>
    /\ pc' = "themes"
    /\ thematic_index' = ScofieldThemeLoop(thematic_index, notes, verses, LowerTexts(notes),
                                         LowerTexts(verses), order, 1)
    /\ UNCHANGED <<parser, verses, notes, cross_refs, line>>
    /\ UNCHANGED <<enhancedVars, baselineVars, refVars>>

\* __init__ of either class: empty tables, counters at 1
Constructed ==
    /\ verses = <<>>
    /\ notes = <<>>
    /\ cross_refs = <<>>
    /\ thematic_index = <<>>
    /\ reading_plans = <<>>
    /\ note_counter = 1
    /\ theme_counter = 1
    /\ plan_counter = 1
    /\ current_note_id = 1
    /\ line = ""
    /\ current_note_text = <<>>
    /\ current_linked_verses = <<>>

Init ==
    /\ parser = "EnhancedScofieldParser"
    /\ Constructed
    /\ pc = "kjv"
    /\ ref_str = ""
    /\ ref_result = [raised |-> FALSE, ids |-> <<>>]

Next ==
    \/ \E rows \in KjvFiles : ParseKjvFile(rows)
    \/ KjvFileMissing
    \/ \E l \in NoteLines : ParseNoteLine(l)
    \/ \E order \in SetOrders : build_thematic_network(order)
    \/ generate_reading_plans

\* the whole pipeline of the enhanced parser
Spec == Init /\ [][Next]_vars

\* either parser, row by row through its verse file
InitKjv ==
    /\ parser \in {"EnhancedScofieldParser", "ScofieldParser"}
    /\ Constructed
    /\ pc = "kjv"
    /\ ref_str = ""
    /\ ref_result = [raised |-> FALSE, ids |-> <<>>]

NextKjv ==
    \/ \E k \in 1..Len(KjvSmall) : ParseKjvRow(KjvSmall[k])
    \/ \E l \in ScofieldKjvLines : ParseKjvTextLine(l)

SpecKjv == InitKjv /\ [][NextKjv]_vars

\* either parser, through its verse file and line by line through its note file
NextNotes ==
    \/ \E rows \in KjvFiles : ParseKjvFile(rows)
    \/ \E l \in NoteLines : ParseNoteLine(l)
    \/ \E f \in ScofieldKjvFiles : parse_kjv_text(f)
    \/ \E l \in ScofieldNoteLines : ParseScofieldNotesLine(l)
    \/ ParseScofieldNotesEnd

SpecNotes == InitKjv /\ [][NextNotes]_vars

\* the baseline parser through its verse file, the NOTE: lines of its note file and
\* its thematic index
InitIndex ==
    /\ parser = "ScofieldParser"
    /\ Constructed
    /\ pc = "kjv"
    /\ ref_str = ""
    /\ ref_result = [raised |-> FALSE, ids |-> <<>>]

NextIndex ==
    \/ \E f \in ScofieldKjvFiles : parse_kjv_text(f)
    \/ \E l \in {n \in ScofieldNoteLines : startswith(n, "NOTE:")} : ParseScofieldNotesLine(l)
    \/ ParseScofieldNotesEnd
    \/ \E order \in SetOrders : build_thematic_index(order)

SpecIndex == InitIndex /\ [][NextIndex]_vars

(***************************************************************************)
(* The serving layer: the verse search of /api/search over the verses      *)
(* table, which holds one row per verse of the store.                      *)
(***************************************************************************)
\* ORDER BY CASE book WHEN 'GEN' THEN 1 WHEN 'EXO' THEN 2 WHEN 'REV' THEN 66 ELSE 99 END
CaseRank(book) ==
    IF book = "GEN" THEN 1
    ELSE IF book = "EXO" THEN 2
    ELSE IF book = "REV" THEN 66
    ELSE 99

\* a row does not come after another one under ORDER BY <case>, chapter, verse
OrderByLeq(a, b) ==
    \/ CaseRank(a.book) < CaseRank(b.book)
    \/ /\ CaseRank(a.book) = CaseRank(b.book)
       /\ \/ a.chapter < b.chapter
          \/ a.chapter = b.chapter /\ a.verse <= b.verse

\* WHERE text LIKE '%q%' OR keywords LIKE '%q%', for a search term of letters
SearchMatches(v, q) ==
    \/ Contains(lower(v.text), lower(q))
    \/ \E k \in v.keywords : Contains(lower(k), lower(q))

\* the default of the limit parameter
SearchLimit == 50

\* the result sets the query may return: the matching rows in an order that agrees
\* with the ORDER BY, rows with equal sort keys in any order, cut at the limit
SearchResults(vs, q) ==
    LET rows == SelectSeq(vs, LAMBDA v : SearchMatches(v, q))
        n == Len(rows)
    IN {[k \in 1..Min(n, SearchLimit) |-> rows[p[k]].key] :
          p \in {f \in [1..n -> 1..n] :
                   /\ \A i, j \in 1..n : i # j => f[i] # f[j]
                   /\ \A i \in 1..(n - 1) : OrderByLeq(rows[f[i]], rows[f[i + 1]])}}

\* GET /api/search?q=...&search_type=verses
search_verses(q) ==
    /\ parser = "EnhancedScofieldParser"
    /\ pc = "kjv"
    /\ pc' = "served"
    /\ ref_str' = q
    /\ \E ids \in SearchResults(verses, q) : ref_result' = [raised |-> FALSE, ids |-> ids]
    /\ UNCHANGED <<parser, verses, notes, cross_refs, thematic_index, line>>
    /\ UNCHANGED <<enhancedVars, baselineVars>>

\* verse rows of books the CASE names and of books it leaves out
SearchRows == {
    <<"LEV", "2", "1", "And when any will offer a meat offering">>,
    <<"NUM", "1", "1", "And the LORD spake unto Moses in the wilderness">>,
    <<"MAT", "1", "1", "The book of the generation of Jesus">>,
    <<"REV", "1", "1", "The Revelation of Jesus" >> }

SearchTerms == {"the", "Jesus"}

NextSearch ==
    \/ \E row \in SearchRows : ParseKjvRow(row)
    \/ \E q \in SearchTerms : search_verses(q)

\* the enhanced parser row by row through a verse file, then one search
SpecSearch == Init /\ [][NextSearch]_vars

\* the reference parser alone, on every citation string of RefStrings
InitRef ==
    /\ parser = "EnhancedScofieldParser"
    /\ Constructed
    /\ pc = "call"
    /\ ref_str \in RefStrings
    /\ ref_result = [raised |-> FALSE, ids |-> <<>>]

SpecRef == InitRef /\ [][CallParseVerseReference]_vars

\* the citation strings the reference parser is called with between the stages, and
\* what the call returns or that it raises
CallResultOf ==
    [s \in {"Gen 1:1-9", "Gen 1:1-25; John 1:1-3", "Xyz 1:1"} |->
        [raised |-> parse_raises(s),
         ids |-> IF parse_raises(s) THEN <<>> ELSE parse_verse_reference(s)]]

\* a call that would consult the verse store: only the ids of stored verses are returned
ParseVerseReferenceCall_of_stored(s) ==
    /\ parser = "EnhancedScofieldParser"
    /\ pc \in {"kjv", "notes"}
    /\ ref_str' = s
    /\ ref_result' = [CallResultOf[s] EXCEPT
                         !.ids = SelectSeq(@, LAMBDA id : HasKey(verses, id))]
    /\ UNCHANGED <<parser, verses, notes, cross_refs, thematic_index, line, pc>>
    /\ UNCHANGED <<enhancedVars, baselineVars>>

\* a call _parse_verse_reference(s) on the parser as it is, between two stages
ParseVerseReferenceCall(s) ==
    /\ parser = "EnhancedScofieldParser"
    /\ pc \in {"kjv", "notes"}
    /\ ref_str' = s
    /\ ref_result' = CallResultOf[s]
    /\ UNCHANGED <<parser, verses, notes, cross_refs, thematic_index, line, pc>>
    /\ UNCHANGED <<enhancedVars, baselineVars>>

NextCall ==
    \/ \E rows \in KjvFiles : ParseKjvFile(rows)
    \/ \E l \in NoteLines : ParseNoteLine(l)
    \/ \E s \in DOMAIN CallResultOf : ParseVerseReferenceCall(s)

\* the enhanced parser through its verse and note files, with calls of the reference
\* parser in between
SpecCall == Init /\ [][NextCall]_vars

\* the casings of a book name the lookup is called with
Casings(name) ==
    {name, lower(name), upper(name),
     lower(SubSeq(name, 1, 1)) \o upper(SubSeq(name, 2, Len(name)))}

\* book names: every full name of the registry in these casings, and the variants
BookNames ==
    UNION {Casings(BIBLE_BOOKS[i][2]) : i \in 1..Len(BIBLE_BOOKS)}
    \cup {"Psalm", "Psalms", "Revelation", "Revelations", " psalm ", "REVELATIONS"}

\* the call _book_name_to_abbrev(ref_str) of either class
CallBookNameToAbbrev ==
    /\ pc = "lookup"
    /\ pc' = "found"
    /\ ref_result' = IF parser = "EnhancedScofieldParser"
                     THEN _book_name_to_abbrev(ref_str)
                     ELSE ScofieldParser_book_name_to_abbrev(ref_str)
    /\ UNCHANGED <<parser, verses, notes, cross_refs, thematic_index, line, ref_str>>
    /\ UNCHANGED <<enhancedVars, baselineVars>>

\* the book lookup of either parser alone, on every name of BookNames
InitBook ==
    /\ parser \in {"EnhancedScofieldParser", "ScofieldParser"}
    /\ Constructed
    /\ pc = "lookup"
    /\ ref_str \in BookNames
    /\ ref_result = None

SpecBook == InitBook /\ [][CallBookNameToAbbrev]_vars

(***************************************************************************)
(* Properties of the reference parser (SpecRef).                           *)
(***************************************************************************)
\* the fragment cites a book that the registry resolves
Resolvable(f) == f.cited /\ _book_name_to_abbrev(f.token) # None

\* the fragment has no range, or a range s-e with s <= e
InOrder(f) == f.last = 0 \/ f.first <= f.last

\* the ids A.c.s, ..., A.c.e that a fragment 'B c:s-e' stands for (A.c.s without a range)
CitedIds(f) ==
    LET A == _book_name_to_abbrev(f.token)
        e == IF f.last = 0 THEN f.first ELSE f.last
    IN [k \in 1..(e - f.first + 1) |->
            A \o "." \o f.chapter \o "." \o ToString(f.first + (k - 1))]

RECURSIVE CitedIdsOf(_)
CitedIdsOf(frags) ==
    IF frags = <<>> THEN <<>> ELSE CitedIds(Head(frags)) \o CitedIdsOf(Tail(frags))

\* what the resolvable fragments yield when each is parsed on its own
RECURSIVE ResolvableAlone(_)
ResolvableAlone(frags) ==
    IF frags = <<>> THEN <<>>
    ELSE (IF Resolvable(Head(frags)) THEN _parse_verse_reference(Head(frags).text) ELSE <<>>)
         \o ResolvableAlone(Tail(frags))

C4_NeverRaises ==
    pc = "return" =>
        /\ ~ref_result.raised
        /\ \A r \in RefInputs :
               (/\ r.text = ref_str
                /\ \E k \in 1..Len(r.frags) : ~Resolvable(r.frags[k]))
               => /\ ref_result.ids = ResolvableAlone(r.frags)
                  /\ (\A k \in 1..Len(r.frags) : ~Resolvable(r.frags[k]))
                         => ref_result.ids = <<>>

C4_Witness ==
    /\ pc = "return"
    /\ ref_str = "Xyz 1:1, Gen 1:2-4"
    /\ ~ref_result.raised
    /\ ref_result.ids = <<"GEN.1.2", "GEN.1.3", "GEN.1.4">>

(***************************************************************************)
(* Properties of the note builders (SpecNotes) and of the verse store      *)
(* builders (SpecKjv).                                                     *)
(***************************************************************************)
\* the rows of the note file whose reference string resolves to no verse
ZeroVerseRows ==
    {strip(l) : l \in {r \in NoteLines : /\ NoteLineRead(r)
                                        /\ _parse_verse_reference(strip(NoteParts(r)[1])) = <<>>}}

\* a step of the enhanced note loop that reads such a row
ZeroVerseRowStep ==
    /\ parser = "EnhancedScofieldParser"
    /\ pc' = "notes"
    /\ line' \in ZeroVerseRows

\* C2: every note of the note table has a non-empty linked_verses list, and a row
\* whose reference string resolves to no verse creates no note, consumes no note
\* id, appends to no note_ids list and emits no cross-reference
C2_NotesHaveVerses ==
    /\ [](\A n \in 1..Len(notes) : notes[n].linked_verses # <<>>)
    /\ [][ZeroVerseRowStep => UNCHANGED <<notes, note_counter, verses, cross_refs>>]_vars

C2_Witness ==
    /\ parser = "EnhancedScofieldParser"
    /\ line \in ZeroVerseRows
    /\ Len(notes) = 1
    /\ notes[1].linked_verses # <<>>
    /\ note_counter = 2
    /\ \A c \in 1..Len(cross_refs) : cross_refs[c].source_id = "N0001"

\* C6: every entry of the verse store is keyed by BOOK.CHAPTER.VERSE of its own
\* book, chapter and verse, its book is an abbreviation of the registry, and no two
\* entries describe the same (book, chapter, verse)
C6_VerseStoreKeyed ==
    /\ \A i \in 1..Len(verses) :
          /\ verses[i].key = verses[i].book \o "." \o ToString(verses[i].chapter)
                                 \o "." \o ToString(verses[i].verse)
          /\ verses[i].book \in BookAbbrevs
    /\ \A i, j \in 1..Len(verses) :
          (/\ verses[i].book = verses[j].book
           /\ verses[i].chapter = verses[j].chapter
           /\ verses[i].verse = verses[j].verse) => i = j

\* a store of several verses one of which a later row has written again
C6_Witness ==
    /\ Len(verses) >= 3
    /\ \E i \in 1..Len(verses) :
          /\ verses[i].key = "GEN.1.1"
          /\ verses[i].text = "In the beginning"

(***************************************************************************)
(* Properties of the pipeline of the enhanced parser (Spec).               *)
(***************************************************************************)
\* the text after cue k and white space, if cue k stands at position i of the text
AfterCue(text, i, k) ==
    IF /\ lower(SubSeq(text, i, Min(Len(text), i + Len(CrossCues[k]) - 1))) = CrossCues[k]
       /\ IsSpace(Char(text, i + Len(CrossCues[k])))
    THEN SubSeq(text, SpanEnd(text, i + Len(CrossCues[k]), "space") + 1, Len(text))
    ELSE ""

\* the verse ids of the range citations 'B c:s-e' that follow a cue phrase in a text
CuedRangeIds(text) ==
    UNION {Range(RefPartIds(AfterCue(text, ik[1], ik[2]))) :
              ik \in {ik \in (1..Len(text)) \X (1..Len(CrossCues)) :
                         /\ RefMatch(AfterCue(text, ik[1], ik[2])).ok
                         /\ RefMatch(AfterCue(text, ik[1], ik[2])).end_verse # None}}

CuedRangeIdsOf == [t \in {strip(f) : f \in NoteFields} |-> CuedRangeIds(t)]

\* C1: every verse of a range citation that follows a cue phrase in the text of a
\* note is the target of a cross-reference whose source is that note
C1_CuedRangesExpanded ==
    \A n \in 1..Len(notes) :
        \A id \in CuedRangeIdsOf[notes[n].text] :
            \E c \in 1..Len(cross_refs) :
                /\ cross_refs[c].source_id = notes[n].key
                /\ cross_refs[c].target_id = id

\* BOOK.CHAPTER.VERSE with a book of the registry; the ids N0001, N0002, ... of notes
IsVerseId(id) ==
    LET p == split(id, ".")
    IN Len(p) = 3 /\ p[1] \in BookAbbrevs /\ IsDigits(p[2]) /\ IsDigits(p[3])

IsNoteId(id) == startswith(id, "N") /\ IsDigits(SubSeq(id, 2, Len(id)))

\* C5: every cross-reference has confidence 0.8 and type "explanation", its source
\* is the id of a note of the note table and its target is a verse id, so that no
\* edge runs from a verse or to a note
C5_CrossRefShape ==
    \A c \in 1..Len(cross_refs) :
        /\ cross_refs[c].confidence = AutoConfidence
        /\ cross_refs[c].ref_type = "explanation"
        /\ HasKey(notes, cross_refs[c].source_id)
        /\ IsNoteId(cross_refs[c].source_id) /\ ~IsVerseId(cross_refs[c].source_id)
        /\ IsVerseId(cross_refs[c].target_id) /\ ~IsNoteId(cross_refs[c].target_id)
        /\ ~HasKey(notes, cross_refs[c].target_id)

C5_Witness ==
    /\ Len(notes) = 2
    /\ \E c, d \in 1..Len(cross_refs) :
          /\ cross_refs[c].source_id = "N0001"
          /\ cross_refs[d].source_id = "N0002"
          /\ cross_refs[d].target_id = "REV.20.4"

\* C7: no day of a reading plan holds more than 10 verse ids, no day is empty, and
\* every day but the last holds exactly 10
C7_DaysOfTen ==
    \A p \in 1..Len(reading_plans) :
        LET days == reading_plans[p].days
        IN \A d \in 1..Len(days) :
              /\ Len(days[d]) >= 1
              /\ Len(days[d]) <= DayLimit
              /\ d < Len(days) => Len(days[d]) = DayLimit

C7_Witness ==
    \E p \in 1..Len(reading_plans) :
        /\ Len(reading_plans[p].days) = 3
        /\ Len(reading_plans[p].days[1]) = DayLimit
        /\ Len(reading_plans[p].days[3]) = 3

\* the number of verse ids over all days of a plan, and the theme the plan was made of
PlanTotal(plan) ==
    Cardinality({<<d, k>> \in (1..Len(plan.days)) \X (1..DayLimit) : k <= Len(plan.days[d])})

SourceTheme(plan) == thematic_index[FirstNamed(thematic_index, plan.theme)]

\* the sum over the books of min(20, number of the ids of the book)
BookCapped(ids) ==
    LET BookOf(id) == split(id, ".")[1]
        InBook(b) == Cardinality({id \in ids : BookOf(id) = b})
    IN Cardinality({<<b, k>> \in {BookOf(id) : id \in ids} \X (1..BookLimit) : k <= InBook(b)})

\* C8 as stated: the total of a plan is the book-capped count of the verse ids of
\* its theme
C8_TotalOfThemeVerses ==
    \A p \in 1..Len(reading_plans) :
        PlanTotal(reading_plans[p]) = BookCapped(Range(SourceTheme(reading_plans[p]).verse_ids))

\* C8: the total of a plan is the book-capped count of those verse ids of its theme
\* that are in the verse store
C8_TotalOfStoredThemeVerses ==
    \A p \in 1..Len(reading_plans) :
        PlanTotal(reading_plans[p])
            = BookCapped({id \in Range(SourceTheme(reading_plans[p]).verse_ids) :
                             HasKey(verses, id)})

\* a plan of 20 verses for a theme of 100 verse ids, 25 of them in the store
C8_Witness ==
    \E p \in 1..Len(reading_plans) :
        /\ PlanTotal(reading_plans[p]) = BookLimit
        /\ Len(SourceTheme(reading_plans[p]).verse_ids) = 100
        /\ Len(verses) = BulkVerses + 3

\* C9: the confidence score of a theme is min(1.0, (notes + verses) / 100): it lies
\* in [0, 1], is 1.0 from 100 references on, and never falls as the references grow
C9_ConfidenceCapped ==
    /\ \A t \in 1..Len(thematic_index) :
          LET n == Len(thematic_index[t].note_ids) + Len(thematic_index[t].verse_ids)
              score == thematic_index[t].confidence_score
          IN /\ score = IF n >= ConfidenceScale THEN ConfidenceScale ELSE n
             /\ score >= 0 /\ score <= ConfidenceScale
    /\ \A t, u \in 1..Len(thematic_index) :
          Len(thematic_index[t].note_ids) + Len(thematic_index[t].verse_ids)
              <= Len(thematic_index[u].note_ids) + Len(thematic_index[u].verse_ids)
          => thematic_index[t].confidence_score <= thematic_index[u].confidence_score

C9_Witness ==
    \E t, u \in 1..Len(thematic_index) :
        /\ Len(thematic_index[t].note_ids) + Len(thematic_index[t].verse_ids) = 29
        /\ thematic_index[t].confidence_score = 29
        /\ Len(thematic_index[u].note_ids) + Len(thematic_index[u].verse_ids) = 101
        /\ thematic_index[u].confidence_score = ConfidenceScale

\* C10: B is among the sub-themes of A exactly if A is among the parent themes of
\* B, and every id of either list is the id of a theme of the index
C10_LinksSymmetric ==
    /\ \A a, b \in 1..Len(thematic_index) :
          thematic_index[b].key \in Range(thematic_index[a].sub_themes)
              <=> thematic_index[a].key \in Range(thematic_index[b].parent_themes)
    /\ \A a \in 1..Len(thematic_index) :
          \A id \in Range(thematic_index[a].sub_themes) \cup Range(thematic_index[a].parent_themes) :
              HasKey(thematic_index, id)

C10_Witness ==
    \E a, b \in 1..Len(thematic_index) :
        /\ thematic_index[a].name = "Salvation"
        /\ thematic_index[b].name = "Justification"
        /\ thematic_index[b].key \in Range(thematic_index[a].sub_themes)
        /\ thematic_index[a].key \in Range(thematic_index[b].parent_themes)

(***************************************************************************)
(* Properties of theme tagging and of the thematic network (Spec).         *)
(***************************************************************************)
\* no element of the list occurs at two positions
NoDuplicates(list) == \A i, j \in 1..Len(list) : i # j => list[i] # list[j]

\* C11: theme membership is a set: no theme name is twice among the theme tags of a
\* note, and no note id is twice among the note ids of a theme
C11_ThemeMembershipIsSet ==
    /\ \A n \in 1..Len(notes) : NoDuplicates(notes[n].theme_tags)
    /\ \A t \in 1..Len(thematic_index) : NoDuplicates(thematic_index[t].note_ids)

\* the note text has "grace" in it and a word that starts with "covenant"
GraceAndCovenant(text) == Contains(lower(text), "grace") /\ HasPrefix(lower(text), "covenant")

\* C12 as stated: a note text with "grace" and "covenant" is tagged Grace and
\* Covenant Theology
C12_TaggedCovenantTheology ==
    \A n \in 1..Len(notes) :
        GraceAndCovenant(notes[n].text)
            => {"Grace", "Covenant Theology"} \subseteq Range(notes[n].theme_tags)

\* C12: a note text with "grace" and "covenant" is tagged Grace and Covenants; it is
\* tagged Covenant Theology only if it has "covenant theolog" in it
C12_TaggedCovenants ==
    \A n \in 1..Len(notes) :
        GraceAndCovenant(notes[n].text)
            => /\ {"Grace", "Covenants"} \subseteq Range(notes[n].theme_tags)
               /\ "Covenant Theology" \in Range(notes[n].theme_tags)
                      => Contains(lower(notes[n].text), "covenant theolog")

C12_Witness ==
    \E n \in 1..Len(notes) :
        /\ notes[n].text = "The covenant of grace"
        /\ notes[n].theme_tags = <<"Grace", "Covenants">>

(***************************************************************************)
(* Properties of the verse store while the verse file is read (SpecKjv).   *)
(***************************************************************************)
\* the verse record is still in the store vs, with its text and keywords, and with
\* every note id it had
VerseKept(v, vs) ==
    /\ HasKey(vs, v.key)
    /\ Lookup(vs, v.key).text = v.text
    /\ parser = "EnhancedScofieldParser" => Lookup(vs, v.key).keywords = v.keywords
    /\ Range(v.note_ids) \subseteq Range(Lookup(vs, v.key).note_ids)

\* the row of a line: too few columns, an unknown book, or a chapter or verse that is
\* no integer
RowRejected(l) ==
    \/ Len(split(l, "\t")) < 4
    \/ upper(strip(split(l, "\t")[1])) \notin BookAbbrevs
    \/ ~IntOk(split(l, "\t")[2])
    \/ ~IntOk(split(l, "\t")[3])

\* the row of a line is valid as it is written: a book of the registry and digits
RowValid(l) ==
    /\ Len(split(l, "\t")) >= 4
    /\ upper(split(l, "\t")[1]) \in BookAbbrevs
    /\ IsDigits(split(l, "\t")[2])
    /\ IsDigits(split(l, "\t")[3])

\* the verse of a valid row is in the store vs
RowLoaded(l, vs) ==
    \E i \in 1..Len(vs) :
        /\ vs[i].key = verse_id(upper(split(l, "\t")[1]), int(split(l, "\t")[2]),
                                int(split(l, "\t")[3]))
        /\ vs[i].book = upper(split(l, "\t")[1])
        /\ vs[i].chapter = int(split(l, "\t")[2])
        /\ vs[i].verse = int(split(l, "\t")[3])
        /\ Contains(vs[i].text, strip(split(l, "\t")[4]))

\* C17: the step that reads a rejected row leaves the verse store unchanged, and the
\* step that reads a valid row loads its verse, whatever rows were read before
C17_RejectedRowsSkipped ==
    [][/\ RowRejected(line') => verses' = verses
       /\ RowValid(line') => RowLoaded(line', verses')]_vars

\* a rejected row was read last, and the two verses loaded before it are in the store
C17_Witness ==
    /\ Len(verses) = 2
    /\ RowRejected(line)

\* C13: a verse record is immutable once created: no step changes the text or the
\* keywords of a verse of the store, or removes one of its note ids
C13_VerseImmutable == [][\A i \in 1..Len(verses) : VerseKept(verses[i], verses')]_vars

(***************************************************************************)
(* Properties of the book lookup.                                          *)
(***************************************************************************)
\* C14: for every abbreviation A of the registry, parsing "A 1:1" yields exactly
\* the one id A.1.1
C14_AbbreviationsParse ==
    \A a \in BookAbbrevs :
        pc = "return" /\ ref_str = a \o " 1:1"
            => ref_result = [raised |-> FALSE, ids |-> <<a \o ".1.1">>]

\* C15: the lookup of a full name of the registry, in any casing, is the
\* abbreviation of that book, and Psalm, Psalms resolve to PSA and Revelation,
\* Revelations to REV, in both parsers
C15_LookupRoundTrips ==
    pc = "found"
        => /\ \A i \in 1..Len(BIBLE_BOOKS) :
                 ref_str \in Casings(BIBLE_BOOKS[i][2]) => ref_result = BIBLE_BOOKS[i][1]
           /\ lower(strip(ref_str)) \in {"psalm", "psalms"} => ref_result = "PSA"
           /\ lower(strip(ref_str)) \in {"revelation", "revelations"} => ref_result = "REV"

\* the same for the enhanced parser alone
C15_EnhancedLookupRoundTrips == parser = "EnhancedScofieldParser" => C15_LookupRoundTrips

TwoColumnRow(l) ==
    /\ l # "" /\ ~startswith(l, "#")
    /\ Len(split(l, "\t")) = 2
    /\ parse_verse_reference(strip(split(l, "\t")[1])) # <<>>

\* C19: category and keywords are optional: the step that reads a row of two
\* columns, a resolvable reference and a note text, creates a note of that text with
\* an empty category and an empty keyword list
C19_TwoColumnRowCreatesNote ==
    [][pc' = "notes" /\ TwoColumnRow(line')
          => /\ Len(notes') = Len(notes) + 1
             /\ notes'[Len(notes')].text = strip(split(line', "\t")[2])
             /\ notes'[Len(notes')].category = ""
             /\ notes'[Len(notes')].keywords = <<>>]_vars

(***************************************************************************)
(* Properties of the reading plans (Spec).                                 *)
(***************************************************************************)
\* the number of plans of a theme name
PlansOf(plans, name) == Cardinality({p \in 1..Len(plans) : plans[p].theme = name})

\* a theme of that name is materialized and has more than 10 references
Qualifying(name) ==
    \E t \in 1..Len(thematic_index) :
        /\ thematic_index[t].name = name
        /\ Len(thematic_index[t].note_ids) + Len(thematic_index[t].verse_ids) > 10

\* ... and one of its verse ids is a key of the verse store
QualifyingStored(name) ==
    \E t \in 1..Len(thematic_index) :
        /\ thematic_index[t].name = name
        /\ Len(thematic_index[t].note_ids) + Len(thematic_index[t].verse_ids) > 10
        /\ \E k \in 1..Len(thematic_index[t].verse_ids) :
               HasKey(verses, thematic_index[t].verse_ids[k])

\* C20 as stated: generate_reading_plans on an empty plan table makes exactly one plan
\* for every major theme that is materialized with more than 10 references, and no
\* other plan
C20_OnePlanPerQualifyingTheme ==
    [][pc' = "plans" /\ reading_plans = <<>>
          => /\ \A p \in 1..Len(reading_plans') :
                    reading_plans'[p].theme \in Range(major_themes)
             /\ \A name \in Range(major_themes) :
                    PlansOf(reading_plans', name) = IF Qualifying(name) THEN 1 ELSE 0]_vars

\* C20: generate_reading_plans on an empty plan table makes exactly one plan for
\* every major theme that is materialized with more than 10 references, at least one
\* of its verse ids being in the verse store, and no other plan
C20_OnePlanPerStoredQualifyingTheme ==
    [][pc' = "plans" /\ reading_plans = <<>>
          => /\ \A p \in 1..Len(reading_plans') :
                    reading_plans'[p].theme \in Range(major_themes)
             /\ \A name \in Range(major_themes) :
                    PlansOf(reading_plans', name)
                        = IF QualifyingStored(name) THEN 1 ELSE 0]_vars

\* after generate_reading_plans: one plan, of Salvation, and none of Eschatology,
\* which has exactly 10 references, 9 of them verses of the store
C20_Witness ==
    /\ pc = "plans"
    /\ PlansOf(reading_plans, "Salvation") = 1
    /\ Len(reading_plans) = 1
    /\ \E t \in 1..Len(thematic_index) :
          /\ thematic_index[t].name = "Eschatology"
          /\ Len(thematic_index[t].note_ids) + Len(thematic_index[t].verse_ids) = 10
          /\ \A k \in 1..Len(thematic_index[t].verse_ids) :
                 HasKey(verses, thematic_index[t].verse_ids[k])

(***************************************************************************)
(* Properties of a run of main (Spec).                                     *)
(***************************************************************************)
\* C18: a missing verse file is a hard failure: once main has found no verse file,
\* the run loads no note, builds no theme and no plan, and every table stays as it was
C18_MissingFileIsFatal ==
    [][pc = "kjv missing"
          => UNCHANGED <<verses, notes, cross_refs, thematic_index, reading_plans,
                         note_counter, theme_counter, plan_counter, pc>>]_vars

(***************************************************************************)
(* Properties of the thematic index of either parser (Spec, SpecIndex).    *)
(***************************************************************************)
\* C21: a theme is materialized only for a name that a note carries: every theme of
\* the index has a non-empty note_ids list, in both parsers
C21_ThemesHaveNotes ==
    \A t \in 1..Len(thematic_index) : thematic_index[t].note_ids # <<>>


(***************************************************************************)
(* Properties of the verse search (SpecSearch).                            *)
(***************************************************************************)
\* the place of a book in the canonical order of the 66 books
CanonicalIndex(book) == CHOOSE i \in 1..Len(BIBLE_BOOKS) : BIBLE_BOOKS[i][1] = book

CanonicalBefore(a, b) ==
    \/ CanonicalIndex(a.book) < CanonicalIndex(b.book)
    \/ /\ a.book = b.book
       /\ \/ a.chapter < b.chapter
          \/ a.chapter = b.chapter /\ a.verse <= b.verse

\* C22: the verses a search lists are in canonical order: by the place of the book
\* among the 66 books, then by chapter, then by verse
C22_SearchListsCanonically ==
    pc = "served" =>
        \A i, j \in 1..Len(ref_result.ids) :
            i < j => CanonicalBefore(Lookup(verses, ref_result.ids[i]),
                                     Lookup(verses, ref_result.ids[j]))


(***************************************************************************)
(* Properties of the back references of the verses (SpecNotes).            *)
(***************************************************************************)
\* the number of places of a list that hold x
Count(list, x) == Cardinality({k \in 1..Len(list) : list[k] = x})

\* C23: with the verse store built before the notes are read, a note's id occurs in
\* a verse's note_ids as often as the verse's id occurs in the note's linked_verses,
\* and every id in a note_ids list is the id of a note of the table, in both parsers
C23_BackReferencesConsistent ==
    /\ \A v \in 1..Len(verses) : \A n \in 1..Len(notes) :
          Count(verses[v].note_ids, notes[n].key) = Count(notes[n].linked_verses, verses[v].key)
    /\ \A v \in 1..Len(verses) : \A k \in 1..Len(verses[v].note_ids) :
          HasKey(notes, verses[v].note_ids[k])

\* a note that cites a verse of the store twice and a verse outside the store once
C23_Witness ==
    /\ \E v \in 1..Len(verses) : \E n \in 1..Len(notes) :
          Count(notes[n].linked_verses, verses[v].key) = 2
    /\ \E n \in 1..Len(notes) : \E k \in 1..Len(notes[n].linked_verses) :
          ~HasKey(verses, notes[n].linked_verses[k])


(***************************************************************************)
(* Properties of the cross-references of the baseline parser (SpecNotes).  *)
(***************************************************************************)
\* the note file is read to its end: no block is open
ScofieldNotesParsed ==
    parser = "ScofieldParser" /\ pc = "notes" /\ current_note_text = <<>>

\* C24: at the end of parse_scofield_notes the source_id of every cross-reference of
\* a REF: line is the id of a note of the note table
C24_RefSourceIsStoredNote ==
    ScofieldNotesParsed =>
        \A c \in 1..Len(cross_refs) : HasKey(notes, cross_refs[c].source_id)


(***************************************************************************)
(* Properties of the grouping of a reading plan by book (Spec).            *)
(***************************************************************************)
\* the books of the verse ids of a list, place by place
BooksOf(ids) == [k \in 1..Len(ids) |-> split(ids[k], ".")[1]]

\* the first place of a list of books that holds the book
FirstPlace(books, b) == CHOOSE k \in 1..Len(books) :
                            books[k] = b /\ \A j \in 1..(k - 1) : books[j] # b

\* the ids of one book are next to each other
Contiguous(books) ==
    \A i, k \in 1..Len(books) :
        (i < k /\ books[i] = books[k]) => \A j \in i..k : books[j] = books[i]

\* the days of a plan hold at most BookLimit ids per book, the ids of a book are next
\* to each other, and the books come as they are first seen in the list src
GroupedByBook(books, src) ==
    /\ \A b \in Range(books) : Count(books, b) <= BookLimit
    /\ Contiguous(books)
    /\ \A i, j \in 1..Len(books) :
          (i < j /\ books[i] # books[j]) => FirstPlace(src, books[i]) < FirstPlace(src, books[j])

ParentRows(name) ==
    {h \in 1..Len(theme_hierarchies) : name \in Range(theme_hierarchies[h][2])}

\* the name is a parent key or a listed child of the hierarchy table
InHierarchy(name) ==
    \/ \E h \in 1..Len(theme_hierarchies) : theme_hierarchies[h][1] = name
    \/ ParentRows(name) # {}

\* C26: a theme whose name is not in the hierarchy table has no parent and no sub
\* theme, and every parent link of a theme leads to a theme of the index whose name
\* is a parent key that lists the theme as a child; a child none of whose parents
\* is in the index has no parent
C26_LinksFollowHierarchy ==
    \A t \in 1..Len(thematic_index) :
        /\ ~InHierarchy(thematic_index[t].name)
              => thematic_index[t].parent_themes = <<>> /\ thematic_index[t].sub_themes = <<>>
        /\ \A k \in 1..Len(thematic_index[t].parent_themes) :
              \E p \in 1..Len(thematic_index) :
                  /\ thematic_index[p].key = thematic_index[t].parent_themes[k]
                  /\ \E h \in ParentRows(thematic_index[t].name) :
                         theme_hierarchies[h][1] = thematic_index[p].name
        /\ (\A h \in ParentRows(thematic_index[t].name) :
               FirstNamed(thematic_index, theme_hierarchies[h][1]) = 0)
              => thematic_index[t].parent_themes = <<>>

\* the index holds a child of 'Christological Themes' without a parent, a theme
\* outside the table and a child linked to its parent
C26_Witness ==
    /\ \E t \in 1..Len(thematic_index) :
          /\ thematic_index[t].name = "Deity of Christ"
          /\ thematic_index[t].parent_themes = <<>>
    /\ \E t \in 1..Len(thematic_index) :
          /\ thematic_index[t].name = "Resurrection"
          /\ thematic_index[t].sub_themes = <<>>
    /\ \E t \in 1..Len(thematic_index) :
          /\ thematic_index[t].name = "Millennium"
          /\ thematic_index[t].parent_themes # <<>>


(***************************************************************************)
(* Properties of the frame of the later stages (Spec).                     *)
(***************************************************************************)
\* the list a is the beginning of the list b
IsPrefix(a, b) == Len(a) <= Len(b) /\ SubSeq(b, 1, Len(a)) = a

\* C27: build_thematic_network and generate_reading_plans leave verses, notes and
\* cross_refs as they are, and every step of the run keeps the cross_refs list as a
\* prefix of the new one
C27_LaterStagesFrame ==
    [][/\ pc' \in {"themes", "plans"} => UNCHANGED <<verses, notes, cross_refs>>
       /\ IsPrefix(cross_refs, cross_refs')]_vars

\* both stages have run over notes that are linked to verses and have cross-references
C27_Witness ==
    /\ pc = "plans"
    /\ thematic_index # <<>>
    /\ reading_plans # <<>>
    /\ Len(notes) = 2
    /\ Len(cross_refs) >= 2
    /\ \E v \in 1..Len(verses) : verses[v].note_ids # <<>>


(***************************************************************************)
(* Properties of the note ids (SpecNotes).                                 *)
(***************************************************************************)
\* the counter from which the parser takes the next note id
NoteCounter == IF parser = "EnhancedScofieldParser" THEN note_counter ELSE current_note_id

\* the keys of the note table are N0001 .. N(k) in the order of creation, where
\* k = counter - 1 is the number of notes
NoteIdsDense ==
    /\ Len(notes) = NoteCounter - 1
    /\ \A n \in 1..Len(notes) : notes[n].key = NoteId(n) /\ notes[n].note_id = NoteId(n)

\* a note of the table stays as it was created, and a row that creates no note
\* leaves the counter as it is
NotesKept ==
    /\ \A n \in 1..Len(notes) :
          /\ n <= Len(notes')
          /\ notes'[n].key = notes[n].key
          /\ notes'[n].text = notes[n].text
          /\ notes'[n].linked_verses = notes[n].linked_verses
    /\ Len(notes') = Len(notes) => NoteCounter' = NoteCounter

\* C28: in both parsers the note ids are dense and sequential in every state, a row
\* that is discarded leaves no gap, and no note is overwritten by a later one
C28_NoteIdsDense == []NoteIdsDense /\ [][NotesKept]_vars

\* a note was created and the row read after it was discarded
C28_Witness ==
    /\ parser = "EnhancedScofieldParser"
    /\ pc = "notes"
    /\ Len(notes) = 1
    /\ note_counter = 2
    /\ NoteLineRead(line)
    /\ ~NoteCreated(line)

(***************************************************************************)
(* Properties of a repeated build of the thematic network (Spec).          *)
(***************************************************************************)
\* no two themes have the same name, and no theme has a link twice
ThemesUnique(idx) ==
    /\ NoDuplicates([t \in 1..Len(idx) |-> idx[t].name])
    /\ \A t \in 1..Len(idx) :
          NoDuplicates(idx[t].parent_themes) /\ NoDuplicates(idx[t].sub_themes)

\* C29: build_thematic_network called again on a parser that did not change leaves
\* the thematic index as the first call left it, with no theme name and no link
\* recorded twice
C29_BuildIdempotent ==
    [][(pc = "themes" /\ pc' = "themes")
          => thematic_index' = thematic_index /\ ThemesUnique(thematic_index')]_vars

(***************************************************************************)
(* Properties of two runs over the same rows (Spec).                       *)
(***************************************************************************)
\* the index a build makes of the tables at hand when list(set(...)) hands the verse
\* ids back in the given order
BuiltWith(order) ==
    _build_theme_relationships(thematic_index \o NewThemes(notes, verses, theme_counter, order))

\* the plan holds the verses it would hold had the set handed the verse ids of its
\* theme back in the given order
PlanWith(plan, order) ==
    Flatten(plan.days)
        = PlanVerses([SourceTheme(plan) EXCEPT !.verse_ids = ListOfSet(@, order)], verses)

\* C30: the thematic index a build leaves and the verses of every reading plan are
\* the same for every order in which the deduplicating set hands back the verse ids
\* of a theme, so that two runs over the same rows agree
C30_RunsAgree ==
    /\ [][pc' = "themes" => \A order \in SetOrders : thematic_index' = BuiltWith(order)]_vars
    /\ [](\A p \in 1..Len(reading_plans) :
             \A order \in SetOrders : PlanWith(reading_plans[p], order))

====
